---- MODULE Spec2Model ----
(***************************************************************************)
(* Verification model of the inventory-privacy repository:                 *)
(*   - the R1CS optimizer (crates/r1cs-optimizer): constraint matrix,      *)
(*     reduction passes and their orchestration;                           *)
(*   - the inventory circuits (crates/circuits): the native inventory and  *)
(*     the Withdraw / Deposit / Transfer / ItemExists constraint systems.  *)
(* Sequences are 1-based here while the Rust code is 0-based: constraint   *)
(* and slot INDICES keep their 0-based values, position = index + 1.       *)
(***************************************************************************)
EXTENDS Integers, Sequences, FiniteSets, TLC

VARIABLES
    matrix,       \* Optimizer.matrix: the ConstraintMatrix being worked on
    passName,     \* which reduction pass ran last ("none" before any)
    passInput,    \* the matrix that pass received
    passMatches,  \* what its scan returned
    optConfig,    \* Optimizer.config
    firstRun,     \* the OptimizationResult of optimize() on the matrix
    secondRun,    \* the OptimizationResult of optimize() on firstRun.matrix
    inv,          \* the native Inventory being deposited to and withdrawn from
    lastStatus,   \* how the last native operation ended
    circuitKind,  \* which circuit was built last ("none" before any)
    witness,      \* the circuit's private witnesses
    public,       \* the circuit's public inputs
    satisfied     \* cs.is_satisfied() after generate_constraints: "yes", "no"

optimizerVars == <<matrix, passName, passInput, passMatches,
                   optConfig, firstRun, secondRun>>
circuitVars == <<circuitKind, witness, public, satisfied>>
vars == <<matrix, passName, passInput, passMatches,
          optConfig, firstRun, secondRun,
          inv, lastStatus, circuitKind, witness, public, satisfied>>

-----------------------------------------------------------------------------
(* Bounds of the model *)

\* rows a matrix is built up to
MaxConstraints == 3
\* variable 0 (the constant one) plus the public inputs
NumPublic == 2
\* private witness variables
NumPrivate == 3
\* size of the range of the 64-bit DefaultHasher, scaled down so that two
\* different constraints can have the same hash
HashSpace == 4

\* rows a matrix handed to optimize() is built up to from the row pool
MaxOptConstraints == 2
\* length of the longest chain of definitions handed to optimize()
MaxChain == 12

\* item identifiers run over 0..MaxItemId (0 is the empty slot)
MaxItemId == 2
\* width in bits of the quantity counter (u64 in the code), scaled down
QuantityBits == 2
\* the largest slot quantity and amount a prover tries in a witness
MaxWitnessValue == 2

\* the prime field F: PrimeField the optimizer is generic over, scaled down
Modulus == 3

NumVariables == NumPublic + NumPrivate
\* every variable index of the model is below this
VarLimit == NumPublic + (IF MaxChain + 1 > NumPrivate THEN MaxChain + 1 ELSE NumPrivate)
Field == 0..(Modulus - 1)
FAdd(x, y) == (x + y) % Modulus
FMul(x, y) == (x * y) % Modulus

NONE == -1

-----------------------------------------------------------------------------
(* constraint.rs: Term, LinearCombination, Constraint, ConstraintMatrix *)

Term(v, k) == [variable |-> v, coefficient |-> k]

\* A LinearCombination is its `terms` vector.
TermIsConstant(t) == t.variable = 0

LcIsConstant(lc) == \A i \in DOMAIN lc : TermIsConstant(lc[i])

LcIsSingleVariable(lc) == Len(lc) = 1 /\ ~TermIsConstant(lc[1])

LcIsOne(lc) ==
    Len(lc) = 1 /\ TermIsConstant(lc[1]) /\ lc[1].coefficient = 1

LcNumTerms(lc) == Cardinality({i \in DOMAIN lc : lc[i].coefficient # 0})

LcVariables(lc) ==
    {lc[i].variable : i \in {j \in DOMAIN lc :
        ~TermIsConstant(lc[j]) /\ lc[j].coefficient # 0}}

\* the non-zero terms, stably sorted by variable index (sort_by_key)
RECURSIVE SortedFrom(_, _)
SortedFrom(lc, v) ==
    IF v >= VarLimit THEN <<>>
    ELSE SelectSeq(lc, LAMBDA t : t.variable = v /\ t.coefficient # 0)
         \o SortedFrom(lc, v + 1)

SortedTerms(lc) == SortedFrom(lc, 0)

\* DefaultHasher fed a sequence of numbers: a deterministic function into the
\* hash range
RECURSIVE HashFeed(_, _)
HashFeed(h, nums) ==
    IF nums = <<>> THEN h
    ELSE HashFeed((h * 3 + Head(nums) + 1) % HashSpace, Tail(nums))

RECURSIVE TermNums(_)
TermNums(ts) ==
    IF ts = <<>> THEN <<>>
    ELSE <<Head(ts).variable, Head(ts).coefficient>> \o TermNums(Tail(ts))

FullHash(lc) == HashFeed(0, TermNums(SortedTerms(lc)))

Constraint(i, a, b, c) == [index |-> i, a |-> a, b |-> b, c |-> c]

ConstraintIsLinear(k) == LcIsOne(k.a) \/ LcIsOne(k.b)

ConstraintIsConstant(k) == LcIsConstant(k.a) /\ LcIsConstant(k.b)

ConstraintHash(k) ==
    HashFeed(0, <<FullHash(k.a), FullHash(k.b), FullHash(k.c)>>)

ConstraintVariables(k) ==
    LcVariables(k.a) \cup LcVariables(k.b) \cup LcVariables(k.c)

EmptyMatrix(npub, npriv) ==
    [constraints |-> <<>>,
     num_public_inputs |-> npub,
     num_private_witnesses |-> npriv,
     num_variables |-> npub + npriv]

NumConstraints(m) == Len(m.constraints)

\* with_constraints: the new index is the position in `indices`, and an index
\* beyond the matrix is skipped
WithConstraints(m, indices) ==
    LET pairs == [i \in 1..Len(indices) |-> <<i - 1, indices[i]>>]
        kept  == SelectSeq(pairs, LAMBDA p : p[2] < Len(m.constraints))
    IN  [m EXCEPT !.constraints =
            [j \in 1..Len(kept) |->
                Constraint(kept[j][1],
                           m.constraints[kept[j][2] + 1].a,
                           m.constraints[kept[j][2] + 1].b,
                           m.constraints[kept[j][2] + 1].c)]]

RECURSIVE RangeSeq(_, _)
RangeSeq(lo, hi) == IF lo >= hi THEN <<>> ELSE <<lo>> \o RangeSeq(lo + 1, hi)

SeqToSet(s) == {s[i] : i \in DOMAIN s}

WithoutConstraints(m, indices_to_remove) ==
    LET remove_set == SeqToSet(indices_to_remove)
        keep_indices == SelectSeq(RangeSeq(0, Len(m.constraints)),
                                  LAMBDA i : i \notin remove_set)
    IN  WithConstraints(m, keep_indices)

MatrixAddConstraint(m, a, b, c) ==
    [m EXCEPT !.constraints = Append(@, Constraint(Len(@), a, b, c))]

-----------------------------------------------------------------------------
(* The PatternMatch values the passes build *)

PatternMatch(id, ty, cis, vis, est, canon, subst) ==
    [id |-> id, pattern_type |-> ty, constraint_indices |-> cis,
     variable_indices |-> vis, estimated_reduction |-> est,
     canonical_index |-> canon, substitute_variable |-> subst]

\* renumber the id field in list order (match_id counts pushes)
Numbered(ms) == [i \in DOMAIN ms |-> [ms[i] EXCEPT !.id = i - 1]]

\* flat_map over the constraint_indices of a list of matches
RECURSIVE ConstraintIndicesOf(_)
ConstraintIndicesOf(ms) ==
    IF ms = <<>> THEN <<>>
    ELSE Head(ms).constraint_indices \o ConstraintIndicesOf(Tail(ms))

-----------------------------------------------------------------------------
(* passes/deduplication.rs *)

\* lc_equal: same length, and every non-zero term of b is found in the map of
\* a's non-zero terms (a later term of a variable overwrites an earlier one)
LcEqual(a, b) ==
    LET a_map(v) ==
            LET hits == {i \in DOMAIN a :
                            a[i].variable = v /\ a[i].coefficient # 0}
            IN  IF hits = {} THEN NONE
                ELSE a[CHOOSE i \in hits : \A j \in hits : j <= i].coefficient
    IN  /\ Len(a) = Len(b)
        /\ \A i \in DOMAIN b :
              b[i].coefficient # 0 => a_map(b[i].variable) = b[i].coefficient

ConstraintsEqual(x, y) ==
    LcEqual(x.a, y.a) /\ LcEqual(x.b, y.b) /\ LcEqual(x.c, y.c)

\* the indices pushed under one hash, in constraint order
HashGroup(m, h) ==
    SelectSeq([i \in 1..Len(m.constraints) |-> m.constraints[i].index],
              LAMBDA idx : ConstraintHash(m.constraints[idx + 1]) = h)

\* the group's first index followed by the members equal to the first
ConfirmedDuplicates(m, indices) ==
    <<indices[1]>> \o
    SelectSeq(Tail(indices),
              LAMBDA idx : ConstraintsEqual(m.constraints[indices[1] + 1],
                                            m.constraints[idx + 1]))

\* The groups are visited in HashMap order, which the code does not fix; the
\* model visits them by ascending hash.
RECURSIVE DedupMatchesFrom(_, _)
DedupMatchesFrom(m, h) ==
    IF h >= HashSpace THEN <<>>
    ELSE LET indices == HashGroup(m, h)
             dups == IF Len(indices) > 1
                     THEN ConfirmedDuplicates(m, indices) ELSE <<>>
         IN  (IF Len(dups) > 1
              THEN <<PatternMatch(0, "Duplicate", dups, <<>>, Len(dups) - 1,
                                  dups[1], NONE)>>
              ELSE <<>>)
             \o DedupMatchesFrom(m, h + 1)

DedupScan(m) == Numbered(DedupMatchesFrom(m, 0))

DedupReduce(m, matches) ==
    IF matches = <<>> THEN m
    ELSE LET dup == SelectSeq(matches,
                        LAMBDA x : x.pattern_type = "Duplicate"
                                   /\ x.canonical_index # NONE)
             to_remove(x) == SelectSeq(x.constraint_indices,
                                       LAMBDA i : i # x.canonical_index)
             all == ConstraintIndicesOf(
                        [i \in DOMAIN dup |->
                            [dup[i] EXCEPT !.constraint_indices = to_remove(dup[i])]])
         IN  WithoutConstraints(m, all)

-----------------------------------------------------------------------------
(* passes/constant_folding.rs *)

RECURSIVE ComputeConstantValue(_)
ComputeConstantValue(lc) ==
    IF lc = <<>> THEN 0
    ELSE FAdd(IF Head(lc).variable = 0 THEN Head(lc).coefficient ELSE 0,
              ComputeConstantValue(Tail(lc)))

ConstFoldScan(m) ==
    LET consts == SelectSeq(m.constraints, ConstraintIsConstant)
        is_satisfied(k) ==
            FMul(ComputeConstantValue(k.a), ComputeConstantValue(k.b))
                = ComputeConstantValue(k.c)
    IN  [i \in DOMAIN consts |->
            PatternMatch(i - 1, "Constant", <<consts[i].index>>, <<>>,
                         IF is_satisfied(consts[i]) THEN 1 ELSE 0, NONE, NONE)]

ConstFoldReduce(m, matches) ==
    IF matches = <<>> THEN m
    ELSE WithoutConstraints(m, ConstraintIndicesOf(
            SelectSeq(matches, LAMBDA x : x.pattern_type = "Constant"
                                          /\ x.estimated_reduction > 0)))

-----------------------------------------------------------------------------
(* passes/linear_substitution.rs *)

MAX_SUBSTITUTION_TERMS == 4

CountVariableUsage(m, var, exclude_idx) ==
    Cardinality({i \in DOMAIN m.constraints :
        /\ m.constraints[i].index # exclude_idx
        /\ var \in ConstraintVariables(m.constraints[i])})

\* the constraints scan reports: linear, single-variable C, small expression,
\* private target that another constraint uses
LinSubCandidate(m, k) ==
    /\ ConstraintIsLinear(k)
    /\ LcIsSingleVariable(k.c)
    /\ LcNumTerms(IF LcIsOne(k.a) THEN k.b ELSE k.a) <= MAX_SUBSTITUTION_TERMS
    /\ k.c[1].variable >= m.num_public_inputs
    /\ CountVariableUsage(m, k.c[1].variable, k.index) # 0

LinSubScan(m) ==
    LET found == SelectSeq(m.constraints, LAMBDA k : LinSubCandidate(m, k))
    IN  [i \in DOMAIN found |->
            PatternMatch(i - 1, "LinearSubstitution", <<found[i].index>>,
                         <<found[i].c[1].variable>>, 1, NONE,
                         found[i].c[1].variable)]

\* the matches that name `var` as the variable to substitute
SubstitutionHits(matches, var) ==
    {i \in DOMAIN matches :
        /\ matches[i].pattern_type = "LinearSubstitution"
        /\ matches[i].substitute_variable = var}

\* the keys of the substitution map
SubstitutedVariables(m, matches) ==
    {v \in 0..(VarLimit - 1) : SubstitutionHits(matches, v) # {}}

\* the substitution map: for each variable the LAST match naming it wins
\* (HashMap::insert overwrites)
SubstitutionOf(m, matches, var) ==
    LET hits == SubstitutionHits(matches, var)
        last == CHOOSE i \in hits : \A j \in hits : j <= i
        defining_idx == matches[last].constraint_indices[1]
        k == m.constraints[defining_idx + 1]
    IN  [expr |-> IF LcIsOne(k.a) THEN k.b ELSE k.a, idx |-> defining_idx]

\* the terms a term contributes after substitution
ExpandTerm(m, matches, t) ==
    IF t.variable \notin SubstitutedVariables(m, matches) THEN <<t>>
    ELSE LET expr == SubstitutionOf(m, matches, t.variable).expr
         IN  [i \in DOMAIN expr |->
                Term(expr[i].variable,
                     FMul(t.coefficient, expr[i].coefficient))]

RECURSIVE ExpandAll(_, _, _)
ExpandAll(m, matches, lc) ==
    IF lc = <<>> THEN <<>>
    ELSE ExpandTerm(m, matches, Head(lc)) \o ExpandAll(m, matches, Tail(lc))

RECURSIVE SumCoefficients(_, _)
SumCoefficients(ts, v) ==
    IF ts = <<>> THEN 0
    ELSE FAdd(IF Head(ts).variable = v THEN Head(ts).coefficient ELSE 0,
              SumCoefficients(Tail(ts), v))

\* apply_substitutions: coefficients are summed per variable in a HashMap and
\* the zero sums are dropped.  The HashMap yields the terms in an order the
\* code does not fix; the model lists them by ascending variable.
RECURSIVE CollectFrom(_, _)
CollectFrom(ts, v) ==
    IF v >= VarLimit THEN <<>>
    ELSE (IF (\E i \in DOMAIN ts : ts[i].variable = v)
             /\ SumCoefficients(ts, v) # 0
          THEN <<Term(v, SumCoefficients(ts, v))>> ELSE <<>>)
         \o CollectFrom(ts, v + 1)

ApplySubstitutions(m, matches, lc) ==
    CollectFrom(ExpandAll(m, matches, lc), 0)

LinSubReduce(m, matches) ==
    IF matches = <<>> THEN m
    ELSE LET constraints_to_remove ==
                {SubstitutionOf(m, matches, v).idx :
                    v \in SubstitutedVariables(m, matches)}
             survivors == SelectSeq(m.constraints,
                            LAMBDA k : k.index \notin constraints_to_remove)
         IN  [m EXCEPT !.constraints =
                [i \in DOMAIN survivors |->
                    Constraint(i - 1,
                        ApplySubstitutions(m, matches, survivors[i].a),
                        ApplySubstitutions(m, matches, survivors[i].b),
                        ApplySubstitutions(m, matches, survivors[i].c))]]

-----------------------------------------------------------------------------
(* passes/dead_variable.rs *)

\* var_usage: the constraints with the variable in A or B
VarUsage(m, var) ==
    {m.constraints[i].index : i \in {j \in DOMAIN m.constraints :
        var \in LcVariables(m.constraints[j].a)
                    \cup LcVariables(m.constraints[j].b)}}

\* var_definitions: the constraints whose C is the single variable
VarDefinitions(m, var) ==
    SelectSeq([i \in DOMAIN m.constraints |-> m.constraints[i].index],
              LAMBDA idx : /\ LcIsSingleVariable(m.constraints[idx + 1].c)
                           /\ m.constraints[idx + 1].c[1].variable = var)

\* the scan without its public-input test
IsDeadVariableAmongAll(m, var) ==
    /\ Len(VarDefinitions(m, var)) = 1
    /\ Cardinality(VarUsage(m, var)) = 0

IsDeadVariable(m, var) ==
    /\ Len(VarDefinitions(m, var)) = 1
    /\ var >= m.num_public_inputs
    /\ Cardinality(VarUsage(m, var)) = 0

\* var_definitions is a HashMap, visited in an order the code does not fix;
\* the model visits the variables in ascending order.
RECURSIVE DeadMatchesFrom(_, _)
DeadMatchesFrom(m, v) ==
    IF v >= VarLimit THEN <<>>
    ELSE (IF IsDeadVariable(m, v)
          THEN <<PatternMatch(0, "DeadVariable", <<VarDefinitions(m, v)[1]>>,
                              <<v>>, 1, NONE, NONE)>>
          ELSE <<>>)
         \o DeadMatchesFrom(m, v + 1)

DeadVarScan(m) == Numbered(DeadMatchesFrom(m, 0))

DeadVarReduce(m, matches) ==
    IF matches = <<>> THEN m
    ELSE WithoutConstraints(m, ConstraintIndicesOf(
            SelectSeq(matches, LAMBDA x : x.pattern_type = "DeadVariable")))

-----------------------------------------------------------------------------
(* optimizer.rs: OptimizerConfig and Optimizer::optimize *)

ConfigDefault ==
    [deduplicate |-> TRUE, fold_constants |-> TRUE, substitute_linear |-> TRUE,
     eliminate_dead |-> TRUE, detect_cse |-> TRUE, max_iterations |-> 10]

ConfigSafe ==
    [deduplicate |-> TRUE, fold_constants |-> TRUE, substitute_linear |-> FALSE,
     eliminate_dead |-> FALSE, detect_cse |-> TRUE, max_iterations |-> 3]

ConfigAggressive ==
    [deduplicate |-> TRUE, fold_constants |-> TRUE, substitute_linear |-> TRUE,
     eliminate_dead |-> TRUE, detect_cse |-> TRUE, max_iterations |-> 20]

ConfigAnalyzeOnly ==
    [deduplicate |-> FALSE, fold_constants |-> FALSE, substitute_linear |-> FALSE,
     eliminate_dead |-> FALSE, detect_cse |-> TRUE, max_iterations |-> 1]

Configs == {ConfigDefault, ConfigSafe, ConfigAggressive, ConfigAnalyzeOnly}

\* ReductionPass::optimize of each pass: reduce applied to what scan returns
DedupOptimize(m) == DedupReduce(m, DedupScan(m))
ConstFoldOptimize(m) == ConstFoldReduce(m, ConstFoldScan(m))
LinSubOptimize(m) == LinSubReduce(m, LinSubScan(m))
DeadVarOptimize(m) == DeadVarReduce(m, DeadVarScan(m))

\* one iteration of the loop body: the enabled passes in their fixed order,
\* each on the matrix the previous one returned
Sweep(m, cfg) ==
    LET m1 == IF cfg.deduplicate THEN DedupOptimize(m) ELSE m
        m2 == IF cfg.fold_constants THEN ConstFoldOptimize(m1) ELSE m1
        m3 == IF cfg.substitute_linear THEN LinSubOptimize(m2) ELSE m2
        m4 == IF cfg.eliminate_dead THEN DeadVarOptimize(m3) ELSE m3
    IN  m4

RECURSIVE VariablesOf(_)
VariablesOf(ts) ==
    IF ts = <<>> THEN <<>>
    ELSE <<Head(ts).variable>> \o VariablesOf(Tail(ts))

\* LinearCombination::structural_hash: the sorted variables of the non-zero
\* terms, without their coefficients
StructuralHash(lc) == HashFeed(0, VariablesOf(SortedTerms(lc)))

\* passes/common_subexpression.rs
MIN_OCCURRENCES == 3

\* the (constraint index, side) pairs whose linear combination has 2+ terms
\* and the structural hash h
CseOccurrences(m, h) ==
    {occ \in (DOMAIN m.constraints) \X {"A", "B", "C"} :
        LET lc == CASE occ[2] = "A" -> m.constraints[occ[1]].a
                    [] occ[2] = "B" -> m.constraints[occ[1]].b
                    [] occ[2] = "C" -> m.constraints[occ[1]].c
        IN  LcNumTerms(lc) >= 2 /\ StructuralHash(lc) = h}

\* the constraint index of every occurrence of the hash h, in the order the
\* scan pushes them: constraint by constraint, side A, then B, then C
RECURSIVE CseConstraintIndices(_, _, _)
CseConstraintIndices(m, h, i) ==
    IF i > Len(m.constraints) THEN <<>>
    ELSE (IF <<i, "A">> \in CseOccurrences(m, h)
          THEN <<m.constraints[i].index>> ELSE <<>>)
         \o (IF <<i, "B">> \in CseOccurrences(m, h)
             THEN <<m.constraints[i].index>> ELSE <<>>)
         \o (IF <<i, "C">> \in CseOccurrences(m, h)
             THEN <<m.constraints[i].index>> ELSE <<>>)
         \o CseConstraintIndices(m, h, i + 1)

\* one match per hash met MIN_OCCURRENCES times, its estimated reduction the
\* occurrences above 2; lc_patterns is a HashMap, visited in an order the
\* code does not fix, the model visits the hashes in ascending order
RECURSIVE CseScanFrom(_, _)
CseScanFrom(m, h) ==
    IF h >= HashSpace THEN <<>>
    ELSE (IF Cardinality(CseOccurrences(m, h)) >= MIN_OCCURRENCES
          THEN <<PatternMatch(0, "CommonSubexpression",
                              CseConstraintIndices(m, h, 1), <<>>,
                              Cardinality(CseOccurrences(m, h)) - 2,
                              NONE, NONE)>>
          ELSE <<>>)
         \o CseScanFrom(m, h + 1)

\* matches.sort_by(|a, b| b.estimated_reduction.cmp(&a.estimated_reduction)):
\* a stable sort, largest estimated reduction first
RECURSIVE SortedByReduction(_)
SortedByReduction(ms) ==
    IF ms = <<>> THEN <<>>
    ELSE LET rest == SortedByReduction(Tail(ms))
             ahead == SelectSeq(rest, LAMBDA x :
                         x.estimated_reduction > Head(ms).estimated_reduction)
             behind == SelectSeq(rest, LAMBDA x :
                         x.estimated_reduction <= Head(ms).estimated_reduction)
         IN  ahead \o <<Head(ms)>> \o behind

\* CommonSubexpressionPass::scan
CseScan(m) == SortedByReduction(Numbered(CseScanFrom(m, 0)))

RECURSIVE SumEstimatedReduction(_)
SumEstimatedReduction(ms) ==
    IF ms = <<>> THEN 0
    ELSE Head(ms).estimated_reduction + SumEstimatedReduction(Tail(ms))

\* ReductionPass::report: the pass's name, the number of matches and the sum
\* of their estimated reductions
Report(name, matches) ==
    [pass_name |-> name, iteration |-> 0, patterns_found |-> Len(matches),
     estimated_savings |-> SumEstimatedReduction(matches)]

\* if report.estimated_savings > 0 { iteration_reports.push(report) }
Pushed(report) ==
    IF report.estimated_savings > 0 THEN <<report>> ELSE <<>>

\* the iteration_reports of one iteration of the loop body
SweepReports(m, cfg) ==
    LET m1 == IF cfg.deduplicate THEN DedupOptimize(m) ELSE m
        m2 == IF cfg.fold_constants THEN ConstFoldOptimize(m1) ELSE m1
        m3 == IF cfg.substitute_linear THEN LinSubOptimize(m2) ELSE m2
    IN  (IF cfg.deduplicate
         THEN Pushed(Report("Deduplication", DedupScan(m))) ELSE <<>>)
        \o (IF cfg.fold_constants
            THEN Pushed(Report("Constant Folding", ConstFoldScan(m1)))
            ELSE <<>>)
        \o (IF cfg.substitute_linear
            THEN Pushed(Report("Linear Substitution", LinSubScan(m2)))
            ELSE <<>>)
        \o (IF cfg.eliminate_dead
            THEN Pushed(Report("Dead Variable", DeadVarScan(m3)))
            ELSE <<>>)

\* the iteration marker pushed after an iteration other than the first that
\* made progress
IterationMarker(iteration, before, after) ==
    IF iteration > 0
    THEN <<[pass_name |-> "Iteration", iteration |-> iteration + 1,
            patterns_found |-> 0, estimated_savings |-> before - after]>>
    ELSE <<>>

\* the CSE detection after the loop
CseReports(m, cfg) ==
    IF cfg.detect_cse /\ CseScan(m) # <<>>
    THEN <<Report("Common Subexpression", CseScan(m))>>
    ELSE <<>>

\* the loop's exit test with an off-by-one: a sweep that removed a single
\* constraint counts as no progress
NoProgressOffByOne(before, after) == after >= before - 1

\* the loop leaves on `after >= before`
NoProgress(before, after) == after >= before

\* for iteration in 0..max_iterations: the matrix after the loop, how many
\* sweeps ran and how the loop was left
RECURSIVE OptimizeLoop(_, _, _, _)
RECURSIVE AfterSweep(_, _, _, _, _)
OptimizeLoop(m, cfg, iteration, all_reports) ==
    IF iteration >= cfg.max_iterations
    THEN [matrix |-> m, sweeps |-> iteration, stopped |-> "exhausted",
          all_reports |-> all_reports]
    ELSE AfterSweep(m, Sweep(m, cfg), cfg, iteration,
                    all_reports \o SweepReports(m, cfg))

\* the end of an iteration: `before` is the matrix the sweep started from,
\* `swept` the matrix it produced
AfterSweep(before, swept, cfg, iteration, all_reports) ==
    IF NoProgress(NumConstraints(before), NumConstraints(swept))
    THEN [matrix |-> swept, sweeps |-> iteration + 1,
          stopped |-> "no_progress", all_reports |-> all_reports]
    ELSE OptimizeLoop(swept, cfg, iteration + 1,
                      all_reports \o IterationMarker(iteration,
                                         NumConstraints(before),
                                         NumConstraints(swept)))

\* the OptimizationResult, with the loop's sweep count and exit recorded
\* beside it
OptimizationResult(m, out, cfg) ==
    [matrix |-> out.matrix,
     original_constraints |-> NumConstraints(m),
     final_constraints |-> NumConstraints(out.matrix),
     pass_reports |-> out.all_reports \o CseReports(out.matrix, cfg),
     sweeps |-> out.sweeps,
     stopped |-> out.stopped]

\* Optimizer::optimize
Optimize(m, cfg) ==
    OptimizationResult(m, OptimizeLoop(m, cfg, 0, <<>>), cfg)

NotRun ==
    [matrix |-> EmptyMatrix(0, 0), original_constraints |-> 0,
     final_constraints |-> 0, pass_reports |-> <<>>, sweeps |-> 0,
     stopped |-> "not_run"]

-----------------------------------------------------------------------------
(* circuits/src/inventory.rs: the native Inventory *)

\* MAX_ITEM_SLOTS is 16 in the code; the model keeps the slot array short
MAX_ITEM_SLOTS == 2

ItemIds == 0..MaxItemId
QuantityLimit == 2 ^ QuantityBits
Quantities == 0..(QuantityLimit - 1)

ItemSlot(id, qty) == [item_id |-> id, quantity |-> qty]

\* ItemSlot::default()
EmptySlot == ItemSlot(0, 0)

\* Inventory::new()
InventoryNew == [i \in 1..MAX_ITEM_SLOTS |-> EmptySlot]

\* Inventory::from_items: the items fill the first slots, the list is cut at
\* the capacity
FromItems(items) ==
    [i \in 1..MAX_ITEM_SLOTS |->
        IF i <= Len(items) THEN ItemSlot(items[i][1], items[i][2])
        ELSE EmptySlot]

\* the 0-based position of the first slot holding item_id, or NONE
FindSlot(inventory, item_id) ==
    LET hits == {i \in DOMAIN inventory : inventory[i].item_id = item_id}
    IN  IF hits = {} THEN NONE
        ELSE (CHOOSE i \in hits : \A j \in hits : i <= j) - 1

\* find_empty_slot falling back to the last slot when no slot is empty
FindEmptySlotOrLast(inventory) ==
    IF FindSlot(inventory, 0) = NONE THEN Len(inventory) - 1
    ELSE FindSlot(inventory, 0)

FindEmptySlot(inventory) == FindSlot(inventory, 0)

\* the quantity of the FIRST slot holding item_id, 0 when there is none
GetQuantity(inventory, item_id) ==
    IF FindSlot(inventory, item_id) = NONE THEN 0
    ELSE inventory[FindSlot(inventory, item_id) + 1].quantity

\* set_quantity without the search for the slot already holding the item: a
\* positive quantity always goes to the first empty slot
SetQuantityWithoutFindSlot(inventory, item_id, quantity) ==
    LET free == FindEmptySlot(inventory)
    IN  IF quantity > 0
        THEN IF free # NONE
             THEN [status |-> "ok",
                   inv |-> [inventory EXCEPT
                               ![free + 1] = ItemSlot(item_id, quantity)]]
             ELSE [status |-> "SlotCapacityExceeded", inv |-> inventory]
        ELSE [status |-> "ok", inv |-> inventory]

SetQuantity(inventory, item_id, quantity) ==
    LET idx == FindSlot(inventory, item_id)
        free == FindEmptySlot(inventory)
    IN  IF idx # NONE
        THEN [status |-> "ok",
              inv |-> IF quantity = 0
                      THEN [inventory EXCEPT ![idx + 1] = EmptySlot]
                      ELSE [inventory EXCEPT ![idx + 1].quantity = quantity]]
        ELSE IF quantity > 0
        THEN IF free # NONE
             THEN [status |-> "ok",
                   inv |-> [inventory EXCEPT
                               ![free + 1] = ItemSlot(item_id, quantity)]]
             ELSE [status |-> "SlotCapacityExceeded", inv |-> inventory]
        ELSE [status |-> "ok", inv |-> inventory]

\* withdraw refusing the whole held quantity: current <= amount
InventoryWithdrawRefusingAll(inventory, item_id, amount) ==
    LET current == GetQuantity(inventory, item_id)
    IN  IF current <= amount
        THEN [status |-> "InsufficientQuantity", inv |-> inventory]
        ELSE SetQuantity(inventory, item_id, current - amount)

InventoryWithdraw(inventory, item_id, amount) ==
    LET current == GetQuantity(inventory, item_id)
    IN  IF current < amount
        THEN [status |-> "InsufficientQuantity", inv |-> inventory]
        ELSE SetQuantity(inventory, item_id, current - amount)

\* `current + amount` on the fixed-width counter: a build with overflow checks
\* panics when the sum does not fit, a build without them wraps
InventoryDeposit(inventory, item_id, amount, overflow_checks) ==
    LET current == GetQuantity(inventory, item_id)
    IN  IF current + amount >= QuantityLimit /\ overflow_checks
        THEN [status |-> "panic", inv |-> inventory]
        ELSE SetQuantity(inventory, item_id,
                         (current + amount) % QuantityLimit)

-----------------------------------------------------------------------------
(* The circuits: commitment.rs, inventory.rs (InventoryVar), item_exists.rs,
   withdraw.rs, deposit.rs, transfer.rs.  A circuit is modelled by the
   conjunction of the constraints generate_constraints emits, evaluated on an
   assignment of its witnesses and public inputs. *)

\* the scalar field the circuits are built over (ConstraintF = Fr), scaled
\* down; it stays far above every quantity sum, as Fr is above 16 * 2^64
CircuitModulus == 61

CAdd(x, y) == (x + y) % CircuitModulus
CSub(x, y) == (x - y + CircuitModulus) % CircuitModulus

\* to_field_elements / to_field_vars: id and quantity of every slot in slot
\* order
RECURSIVE ToFieldElements(_)
ToFieldElements(inventory) ==
    IF inventory = <<>> THEN <<>>
    ELSE <<Head(inventory).item_id % CircuitModulus,
           Head(inventory).quantity % CircuitModulus>>
         \o ToFieldElements(Tail(inventory))

\* the Poseidon sponge, absorbing a sequence and squeezing one element: an
\* ideal hash, two inputs agree exactly when the absorbed sequences agree
Poseidon(inputs) == <<"Poseidon", inputs>>

\* create_inventory_commitment (native)
CreateInventoryCommitment(inventory, blinding) ==
    Poseidon(Append(ToFieldElements(inventory), blinding))

\* PoseidonGadget::commit_inventory (in circuit)
CommitInventory(inventory_vars, blinding) ==
    Poseidon(Append(inventory_vars, blinding))

\* InventoryVar::get_quantity_for_item: the sum over ALL slots of
\* is_eq(slot_id, target).select(slot_qty, 0)
RECURSIVE GetQuantityForItem(_, _)
GetQuantityForItem(inventory, target_item_id) ==
    IF inventory = <<>> THEN 0
    ELSE CAdd(IF Head(inventory).item_id = target_item_id
              THEN Head(inventory).quantity ELSE 0,
              GetQuantityForItem(Tail(inventory), target_item_id))

\* the comparison without its bound on the operands: only 0 < difference + 1
EnforceNonZeroSuccessor(difference) == 0 < CAdd(difference, 1)

\* difference.enforce_cmp(&zero, Greater, true): 0 < difference + 1 with both
\* sides at most (p - 1) / 2
EnforceGreaterOrEqualZero(difference) ==
    /\ CAdd(difference, 1) <= (CircuitModulus - 1) \div 2
    /\ 0 < CAdd(difference, 1)

\* the slot loop of the Withdraw circuit and of the source side of Transfer:
\* a slot is the target when its OLD id is the item
SourceSlotsValid(old, new, item_id) ==
    \A i \in DOMAIN old :
        \/ old[i].item_id = item_id
        \/ (old[i].item_id = new[i].item_id /\ old[i].quantity = new[i].quantity)

\* the slot loop of the Deposit circuit and of the destination side of
\* Transfer: a slot is the target when its old OR new id is the item
DestinationSlotsValid(old, new, item_id) ==
    \A i \in DOMAIN old :
        \/ (old[i].item_id = item_id \/ new[i].item_id = item_id)
        \/ (old[i].item_id = new[i].item_id /\ old[i].quantity = new[i].quantity)

ItemExistsSatisfied(w, pub) ==
    /\ CommitInventory(ToFieldElements(w.old), w.old_blinding) = pub.old_commitment
    /\ EnforceGreaterOrEqualZero(
            CSub(GetQuantityForItem(w.old, pub.item_id), pub.amount))

WithdrawSatisfied(w, pub) ==
    /\ CommitInventory(ToFieldElements(w.old), w.old_blinding) = pub.old_commitment
    /\ CommitInventory(ToFieldElements(w.new), w.new_blinding) = pub.new_commitment
    /\ EnforceGreaterOrEqualZero(
            CSub(GetQuantityForItem(w.old, pub.item_id), pub.amount))
    /\ GetQuantityForItem(w.new, pub.item_id)
            = CSub(GetQuantityForItem(w.old, pub.item_id), pub.amount)
    /\ SourceSlotsValid(w.old, w.new, pub.item_id)

DepositSatisfied(w, pub) ==
    /\ CommitInventory(ToFieldElements(w.old), w.old_blinding) = pub.old_commitment
    /\ CommitInventory(ToFieldElements(w.new), w.new_blinding) = pub.new_commitment
    /\ GetQuantityForItem(w.new, pub.item_id)
            = CAdd(GetQuantityForItem(w.old, pub.item_id), pub.amount)
    /\ DestinationSlotsValid(w.old, w.new, pub.item_id)

\* the Transfer constraints without the destination's quantity equation
TransferWithoutDestinationEquation(w, pub) ==
    /\ CommitInventory(ToFieldElements(w.old), w.old_blinding) = pub.old_commitment
    /\ CommitInventory(ToFieldElements(w.new), w.new_blinding) = pub.new_commitment
    /\ CommitInventory(ToFieldElements(w.dst_old), w.dst_old_blinding)
            = pub.dst_old_commitment
    /\ CommitInventory(ToFieldElements(w.dst_new), w.dst_new_blinding)
            = pub.dst_new_commitment
    /\ EnforceGreaterOrEqualZero(
            CSub(GetQuantityForItem(w.old, pub.item_id), pub.amount))
    /\ GetQuantityForItem(w.new, pub.item_id)
            = CSub(GetQuantityForItem(w.old, pub.item_id), pub.amount)
    /\ SourceSlotsValid(w.old, w.new, pub.item_id)
    /\ DestinationSlotsValid(w.dst_old, w.dst_new, pub.item_id)

\* the source inventories are w.old / w.new, the destination ones
\* w.dst_old / w.dst_new
TransferSatisfied(w, pub) ==
    /\ CommitInventory(ToFieldElements(w.old), w.old_blinding) = pub.old_commitment
    /\ CommitInventory(ToFieldElements(w.new), w.new_blinding) = pub.new_commitment
    /\ CommitInventory(ToFieldElements(w.dst_old), w.dst_old_blinding)
            = pub.dst_old_commitment
    /\ CommitInventory(ToFieldElements(w.dst_new), w.dst_new_blinding)
            = pub.dst_new_commitment
    /\ EnforceGreaterOrEqualZero(
            CSub(GetQuantityForItem(w.old, pub.item_id), pub.amount))
    /\ GetQuantityForItem(w.new, pub.item_id)
            = CSub(GetQuantityForItem(w.old, pub.item_id), pub.amount)
    /\ GetQuantityForItem(w.dst_new, pub.item_id)
            = CAdd(GetQuantityForItem(w.dst_old, pub.item_id), pub.amount)
    /\ SourceSlotsValid(w.old, w.new, pub.item_id)
    /\ DestinationSlotsValid(w.dst_old, w.dst_new, pub.item_id)

\* the witnesses a prover hands to a circuit's constructor
Witness(old, new, r_old, r_new, dst_old, dst_new, r_dst_old, r_dst_new) ==
    [old |-> old, new |-> new, old_blinding |-> r_old, new_blinding |-> r_new,
     dst_old |-> dst_old, dst_new |-> dst_new,
     dst_old_blinding |-> r_dst_old, dst_new_blinding |-> r_dst_new]

\* the public inputs, the commitments computed natively as the callers do
PublicInputs(w, item_id, amount) ==
    [old_commitment |-> CreateInventoryCommitment(w.old, w.old_blinding),
     new_commitment |-> CreateInventoryCommitment(w.new, w.new_blinding),
     dst_old_commitment |->
        CreateInventoryCommitment(w.dst_old, w.dst_old_blinding),
     dst_new_commitment |->
        CreateInventoryCommitment(w.dst_new, w.dst_new_blinding),
     item_id |-> item_id, amount |-> amount]

NoWitness ==
    Witness(InventoryNew, InventoryNew, 0, 0, InventoryNew, InventoryNew, 0, 0)

InventoryIdle ==
    /\ inv = InventoryNew
    /\ lastStatus = "none"
    /\ circuitKind = "none"
    /\ witness = NoWitness
    /\ public = PublicInputs(NoWitness, 0, 0)
    /\ satisfied = "unknown"

-----------------------------------------------------------------------------
(* What a matrix means: row k is <A,v> * <B,v> = <C,v> with v[0] = 1 *)

AllVariables == 1..(NumVariables - 1)

Assignments == [AllVariables -> Field]

ValueOf(asg, v) == IF v = 0 THEN 1 ELSE asg[v]

RECURSIVE EvalLc(_, _)
EvalLc(lc, asg) ==
    IF lc = <<>> THEN 0
    ELSE FAdd(FMul(Head(lc).coefficient, ValueOf(asg, Head(lc).variable)),
              EvalLc(Tail(lc), asg))

SatisfiesConstraint(k, asg) ==
    FMul(EvalLc(k.a, asg), EvalLc(k.b, asg)) = EvalLc(k.c, asg)

Satisfies(m, asg) ==
    \A i \in DOMAIN m.constraints : SatisfiesConstraint(m.constraints[i], asg)

SolutionSet(m) == {asg \in Assignments : Satisfies(m, asg)}

\* the solutions of m seen on the variables of `keep` only
ProjectedSolutions(m, keep) ==
    {[v \in keep |-> asg[v]] : asg \in SolutionSet(m)}

\* the coefficient a linear combination gives a variable
CoefficientOf(lc, v) == SumCoefficients(lc, v)

SameLinearCombination(x, y) ==
    \A v \in 0..(VarLimit - 1) : CoefficientOf(x, v) = CoefficientOf(y, v)

-----------------------------------------------------------------------------
(* The rows the matrices are built from.  Variable 0 is the constant, 1 is a
   public input, 2..4 are private witnesses. *)

One == <<Term(0, 1)>>
Var(v) == <<Term(v, 1)>>

ConstraintPool ==
    { <<Var(2), Var(3), Var(4)>>,                      \* v2 * v3 = v4
      <<Var(2), Var(2), Var(3)>>,                      \* v2 * v2 = v3
      <<Var(3), Var(3), Var(4)>>,                      \* v3 * v3 = v4
      <<Var(3), Var(4), Var(1)>>,                      \* v3 * v4 = v1
      <<One, <<Term(2, 1), Term(1, 1)>>, Var(3)>>,     \* 1 * (v2 + v1) = v3
      <<One, Var(2), <<Term(3, 2)>> >>,                \* 1 * v2 = 2 v3
      <<Var(3), One, Var(4)>>,                         \* v3 * 1 = v4
      <<<<Term(0, 2)>>, <<Term(0, 2)>>, One>>,         \* 2 * 2 = 1
      <<<<Term(0, 2)>>, <<Term(0, 2)>>, <<Term(0, 2)>> >>,  \* 2 * 2 = 2
      <<One, One, <<Term(0, 1), Term(2, 1)>> >>,       \* 1 * 1 = 1 + v2
      <<Var(1), Var(1), <<Term(4, 1), Term(2, 1)>> >>, \* v1 * v1 = v4 + v2
      <<Var(2), Var(2), <<Term(4, 0)>> >>,             \* v2 * v2 = 0 v4
      <<<<Term(2, 1), Term(3, 2)>>, Var(1), Var(1)>>,  \* (v2 + 2 v3) * v1 = v1
      <<<<Term(2, 1), Term(2, 1)>>, Var(1), Var(1)>>,  \* (v2 + v2) * v1 = v1
      <<Var(2), <<Term(3, 1), Term(4, 0)>>, Var(4)>>   \* v2 * (v3 + 0 v4) = v4
    }

-----------------------------------------------------------------------------
(* The optimizer driven one pass at a time *)

InitPasses ==
    /\ matrix = EmptyMatrix(NumPublic, NumPrivate)
    /\ passName = "none"
    /\ passInput = EmptyMatrix(NumPublic, NumPrivate)
    /\ passMatches = <<>>
    /\ optConfig = ConfigDefault
    /\ firstRun = NotRun
    /\ secondRun = NotRun
    /\ InventoryIdle

\* ConstraintMatrix::add_constraint
AddConstraint ==
    /\ passName = "none"
    /\ NumConstraints(matrix) < MaxConstraints
    /\ \E row \in ConstraintPool :
          matrix' = MatrixAddConstraint(matrix, row[1], row[2], row[3])
    /\ UNCHANGED <<passName, passInput, passMatches,
                   optConfig, firstRun, secondRun>>
    /\ UNCHANGED <<inv, lastStatus, circuitKind, witness, public, satisfied>>

\* a pass applied as scan followed by reduce on what scan returned
RunPass(name, matches, reduced) ==
    /\ passName = "none"
    /\ passName' = name
    /\ passInput' = matrix
    /\ passMatches' = matches
    /\ matrix' = reduced
    /\ UNCHANGED <<optConfig, firstRun, secondRun>>
    /\ UNCHANGED <<inv, lastStatus, circuitKind, witness, public, satisfied>>

RunDeduplication ==
    RunPass("dedup", DedupScan(matrix),
            DedupReduce(matrix, DedupScan(matrix)))

RunConstantFolding ==
    RunPass("constfold", ConstFoldScan(matrix),
            ConstFoldReduce(matrix, ConstFoldScan(matrix)))

RunLinearSubstitution ==
    RunPass("linsub", LinSubScan(matrix),
            LinSubReduce(matrix, LinSubScan(matrix)))

RunDeadVariable ==
    RunPass("deadvar", DeadVarScan(matrix),
            DeadVarReduce(matrix, DeadVarScan(matrix)))

NextPasses ==
    \/ AddConstraint
    \/ RunDeduplication
    \/ RunConstantFolding
    \/ RunLinearSubstitution
    \/ RunDeadVariable

SpecPasses == InitPasses /\ [][NextPasses]_vars

\* C1: LinearSubstitutionPass preserves the solution set: on the variables
\* that were not substituted away, the reduced matrix and the matrix it came
\* from have the same solutions.
C1_LinearSubstitutionPreservesSolutions ==
    passName = "linsub" =>
        LET keep == AllVariables
                        \ SubstitutedVariables(passInput, passMatches)
        IN  ProjectedSolutions(matrix, keep)
                = ProjectedSolutions(passInput, keep)

\* the variables DeadVariablePass reported dead
DeadVariables(matches) ==
    UNION {SeqToSet(matches[i].variable_indices) : i \in DOMAIN matches}

\* C2: DeadVariablePass preserves the solution set on the surviving
\* variables: on all variables but the ones reported dead, the reduced matrix
\* and the matrix it came from have the same solutions.
C2_DeadVariablePreservesSolutions ==
    passName = "deadvar" =>
        LET keep == AllVariables \ DeadVariables(passMatches)
        IN  ProjectedSolutions(matrix, keep)
                = ProjectedSolutions(passInput, keep)

\* the constraint indices a pass took out of its input
RemovedByConstFold ==
    SeqToSet(ConstraintIndicesOf(
        SelectSeq(passMatches, LAMBDA x : x.estimated_reduction > 0)))

\* C3: ConstantFoldingPass removes a constraint only if every assignment
\* satisfies it, so the solution set is unchanged.
C3_ConstantFoldingRemovesOnlyTautologies ==
    passName = "constfold" =>
        /\ \A idx \in RemovedByConstFold : \A asg \in Assignments :
              SatisfiesConstraint(passInput.constraints[idx + 1], asg)
        /\ SolutionSet(matrix) = SolutionSet(passInput)

\* C4: DeduplicationPass removes a constraint only when the retained
\* lowest-indexed constraint of its group has the same A, B and C (the same
\* coefficient for every variable), so the solution set is unchanged.
C4_DeduplicationRemovesOnlyDuplicates ==
    passName = "dedup" =>
        /\ \A i \in DOMAIN passMatches :
              \A idx \in SeqToSet(passMatches[i].constraint_indices) :
                 LET kept == passInput.constraints[
                                passMatches[i].canonical_index + 1]
                     gone == passInput.constraints[idx + 1]
                 IN  /\ passMatches[i].canonical_index <= idx
                     /\ SameLinearCombination(kept.a, gone.a)
                     /\ SameLinearCombination(kept.b, gone.b)
                     /\ SameLinearCombination(kept.c, gone.c)
        /\ SolutionSet(matrix) = SolutionSet(passInput)

-----------------------------------------------------------------------------
(* The optimizer run twice: optimize() on a matrix, then optimize() on the
   matrix it returned, under the same configuration *)

\* row i of a chain of definitions: v(i+2) * v(i+2) = v(i+3)
ChainLink(i) == <<Var(i + 2), Var(i + 2), Var(i + 3)>>

IsChain(m) ==
    \A i \in DOMAIN m.constraints :
        <<m.constraints[i].a, m.constraints[i].b, m.constraints[i].c>>
            = ChainLink(i - 1)

InitOptimize ==
    /\ matrix = EmptyMatrix(NumPublic, MaxChain + 1)
    /\ passName = "none"
    /\ passInput = EmptyMatrix(NumPublic, NumPrivate)
    /\ passMatches = <<>>
    /\ optConfig \in Configs
    /\ firstRun = NotRun
    /\ secondRun = NotRun
    /\ InventoryIdle

\* ConstraintMatrix::add_constraint with a row of the pool
AddPoolRow ==
    /\ firstRun = NotRun
    /\ NumConstraints(matrix) < MaxOptConstraints
    /\ \E row \in ConstraintPool :
          matrix' = MatrixAddConstraint(matrix, row[1], row[2], row[3])
    /\ UNCHANGED <<passName, passInput, passMatches,
                   optConfig, firstRun, secondRun>>
    /\ UNCHANGED <<inv, lastStatus, circuitKind, witness, public, satisfied>>

\* ConstraintMatrix::add_constraint with the next link of a chain
AddChainLink ==
    /\ firstRun = NotRun
    /\ IsChain(matrix)
    /\ NumConstraints(matrix) < MaxChain
    /\ LET row == ChainLink(NumConstraints(matrix))
       IN  matrix' = MatrixAddConstraint(matrix, row[1], row[2], row[3])
    /\ UNCHANGED <<passName, passInput, passMatches,
                   optConfig, firstRun, secondRun>>
    /\ UNCHANGED <<inv, lastStatus, circuitKind, witness, public, satisfied>>

\* Optimizer::from_matrix(matrix).with_config(config).optimize()
OptimizeOnce ==
    /\ firstRun = NotRun
    /\ firstRun' = Optimize(matrix, optConfig)
    /\ UNCHANGED <<matrix, passName, passInput, passMatches,
                   optConfig, secondRun>>
    /\ UNCHANGED <<inv, lastStatus, circuitKind, witness, public, satisfied>>

\* the same on the matrix the first run returned
OptimizeAgain ==
    /\ firstRun # NotRun
    /\ secondRun = NotRun
    /\ secondRun' = Optimize(firstRun.matrix, optConfig)
    /\ UNCHANGED <<matrix, passName, passInput, passMatches,
                   optConfig, firstRun>>
    /\ UNCHANGED <<inv, lastStatus, circuitKind, witness, public, satisfied>>

NextOptimize ==
    \/ AddPoolRow
    \/ AddChainLink
    \/ OptimizeOnce
    \/ OptimizeAgain

SpecOptimize == InitOptimize /\ [][NextOptimize]_vars

\* C8 as claimed: a second optimize() removes no further constraint, for
\* every matrix and every configuration.
C8_SecondRunRemovesNothing ==
    secondRun # NotRun =>
        secondRun.final_constraints = secondRun.original_constraints

\* C8 as amended: when the first optimize() left its loop because a sweep
\* removed nothing (and not because max_iterations sweeps were used up), a
\* second optimize() removes no further constraint and returns the same
\* matrix.
C8_SecondRunRemovesNothingAtFixedPoint ==
    (secondRun # NotRun /\ firstRun.stopped = "no_progress") =>
        /\ secondRun.final_constraints = secondRun.original_constraints
        /\ secondRun.matrix = firstRun.matrix

\* a first run that removed constraints over several sweeps, left the loop
\* on a sweep without progress, and was followed by a second run
C8_Witness ==
    /\ secondRun # NotRun
    /\ firstRun.stopped = "no_progress"
    /\ firstRun.sweeps >= 3
    /\ firstRun.final_constraints < firstRun.original_constraints

-----------------------------------------------------------------------------
(* The native inventory driven by deposits, withdrawals and transfers, each
   successful operation followed by the circuit built from it as the callers
   build it: witnesses (I, I', r, r'), public inputs (commit(I, r),
   commit(I', r'), id, amount), generate_constraints, is_satisfied. *)

\* blinding factors run over 1..MaxBlinding
MaxBlinding == 2
Blindings == 1..MaxBlinding

OptimizerIdle ==
    /\ matrix = EmptyMatrix(NumPublic, NumPrivate)
    /\ passName = "none"
    /\ passInput = EmptyMatrix(NumPublic, NumPrivate)
    /\ passMatches = <<>>
    /\ optConfig = ConfigDefault
    /\ firstRun = NotRun
    /\ secondRun = NotRun

InitInventory ==
    /\ OptimizerIdle
    /\ InventoryIdle

\* the destination inventories of a transfer
PeerInventories ==
    { InventoryNew,
      FromItems(<< <<1, 1>> >>),
      FromItems(<< <<2, QuantityLimit - 1>> >>) }

\* cs.is_satisfied() after the circuit of `kind` generated its constraints
CircuitSatisfied(kind, w, pub) ==
    CASE kind = "ItemExists" -> ItemExistsSatisfied(w, pub)
      [] kind = "Withdraw"   -> WithdrawSatisfied(w, pub)
      [] kind = "Deposit"    -> DepositSatisfied(w, pub)
      [] kind = "Transfer"   -> TransferSatisfied(w, pub)

\* the circuit of `kind` built from witnesses w and public inputs pub, and
\* checked
CheckCircuit(kind, w, pub) ==
    /\ circuitKind' = kind
    /\ witness' = w
    /\ public' = pub
    /\ satisfied' = IF CircuitSatisfied(kind, w, pub) THEN "yes" ELSE "no"

BuildCircuit(kind, w, item_id, amount) ==
    CheckCircuit(kind, w, PublicInputs(w, item_id, amount))

NoCircuit ==
    /\ circuitKind' = "none"
    /\ witness' = NoWitness
    /\ public' = PublicInputs(NoWitness, 0, 0)
    /\ satisfied' = "unknown"

\* what a native operation leaves behind: the inventory, how the call ended
\* and, when it succeeded, the circuit built from it
AfterNative(kind, status, inv_after, w, item_id, amount) ==
    /\ inv' = inv_after
    /\ lastStatus' = status
    /\ IF status = "ok"
       THEN BuildCircuit(kind, w, item_id, amount)
       ELSE NoCircuit
    /\ UNCHANGED optimizerVars

AfterWithdraw(res, item_id, amount, r, r2) ==
    AfterNative("Withdraw", res.status, res.inv,
                Witness(inv, res.inv, r, r2, InventoryNew, InventoryNew, 0, 0),
                item_id, amount)

NativeWithdraw ==
    \E item_id \in ItemIds, amount \in Quantities, r \in Blindings, r2 \in Blindings :
        AfterWithdraw(InventoryWithdraw(inv, item_id, amount),
                      item_id, amount, r, r2)

\* the outcomes of deposit over the builds: with and without overflow checks
DepositOutcomes(inventory, item_id, amount) ==
    { InventoryDeposit(inventory, item_id, amount, overflow_checks) :
        overflow_checks \in BOOLEAN }

AfterDeposit(res, item_id, amount, r, r2) ==
    AfterNative("Deposit", res.status, res.inv,
                Witness(inv, res.inv, r, r2, InventoryNew, InventoryNew, 0, 0),
                item_id, amount)

NativeDeposit ==
    \E item_id \in ItemIds, amount \in Quantities, r \in Blindings, r2 \in Blindings :
      \E res \in DepositOutcomes(inv, item_id, amount) :
        AfterDeposit(res, item_id, amount, r, r2)

\* `out` is the withdraw on the source, `in_` the deposit on the destination
AfterTransfer(out, dst, in_, item_id, amount, r) ==
    AfterNative("Transfer",
                IF out.status = "ok" THEN in_.status ELSE out.status,
                out.inv,
                Witness(inv, out.inv, r, r, dst, in_.inv, r, r),
                item_id, amount)

\* a withdraw on the source followed by a deposit of the same item and
\* amount on the destination
NativeTransfer ==
    \E item_id \in ItemIds, amount \in Quantities, r \in Blindings,
       dst \in PeerInventories :
      \E in_ \in DepositOutcomes(dst, item_id, amount) :
        AfterTransfer(InventoryWithdraw(inv, item_id, amount), dst, in_,
                      item_id, amount, r)

NextInventory ==
    \/ NativeWithdraw
    \/ NativeDeposit
    \/ NativeTransfer

SpecInventory == InitInventory /\ [][NextInventory]_vars

\* C9: in every inventory reached from Inventory::new() by deposits and
\* withdrawals with any item id (0 included) and amount, a slot whose
\* item_id is 0 has quantity 0.
C9_EmptySlotHasNoQuantity ==
    \A i \in DOMAIN inv : inv[i].item_id = 0 => inv[i].quantity = 0

\* C10: whenever a native withdraw, deposit or transfer on a reachable
\* inventory succeeds, the circuit built from the inventories before and
\* after it, the blindings, their commitments, the id and the amount is
\* satisfied.
C10_LegalOperationSatisfiesCircuit ==
    (lastStatus = "ok" /\ circuitKind \in {"Withdraw", "Deposit", "Transfer"})
        => satisfied = "yes"

-----------------------------------------------------------------------------
(* The circuits on the assignments a prover may choose: any slot contents in
   the old and the new inventory, any public item id and amount. *)

WitnessSlots == [item_id : ItemIds, quantity : 0..MaxWitnessValue]
WitnessInventories == [1..MAX_ITEM_SLOTS -> WitnessSlots]

InitCircuits ==
    /\ OptimizerIdle
    /\ InventoryIdle

\* a circuit built from a prover's assignment, the commitments computed from
\* the witness inventories; one circuit is built in a behaviour
Prove(kind, w, item_id, amount) ==
    /\ BuildCircuit(kind, w, item_id, amount)
    /\ UNCHANGED <<inv, lastStatus>>
    /\ UNCHANGED optimizerVars

ProveItemExists ==
    /\ circuitKind = "none"
    /\ \E old \in WitnessInventories, item_id \in ItemIds,
          min_quantity \in 0..(MAX_ITEM_SLOTS * MaxWitnessValue + 1), r \in Blindings :
           Prove("ItemExists",
                 Witness(old, old, r, r, InventoryNew, InventoryNew, 0, 0),
                 item_id, min_quantity)

ProveWithdraw ==
    /\ circuitKind = "none"
    /\ \E old \in WitnessInventories, new \in WitnessInventories,
          item_id \in ItemIds, amount \in 0..MaxWitnessValue :
           Prove("Withdraw",
                 Witness(old, new, 1, 1, InventoryNew, InventoryNew, 0, 0),
                 item_id, amount)

ProveDeposit ==
    /\ circuitKind = "none"
    /\ \E old \in WitnessInventories, new \in WitnessInventories,
          item_id \in ItemIds, amount \in 0..MaxWitnessValue :
           Prove("Deposit",
                 Witness(old, new, 1, 1, InventoryNew, InventoryNew, 0, 0),
                 item_id, amount)

\* an inventory holding the item, for the honest side of a transfer
Holding(item_id) == FromItems(<< <<item_id, MaxWitnessValue>> >>)

\* one side of the transfer is any assignment, the other side is a native
\* withdraw (resp. deposit) on an inventory holding the item (resp. empty)
ProveTransfer ==
    /\ circuitKind = "none"
    /\ \E old \in WitnessInventories, new \in WitnessInventories,
          item_id \in 1..MaxItemId, amount \in 0..MaxWitnessValue :
           \/ Prove("Transfer",
                    Witness(old, new, 1, 1,
                            InventoryNew,
                            InventoryDeposit(InventoryNew, item_id, amount, TRUE).inv,
                            1, 1),
                    item_id, amount)
           \/ Prove("Transfer",
                    Witness(Holding(item_id),
                            InventoryWithdraw(Holding(item_id), item_id, amount).inv,
                            1, 1, old, new, 1, 1),
                    item_id, amount)

NextCircuits ==
    \/ ProveItemExists
    \/ ProveWithdraw
    \/ ProveDeposit
    \/ ProveTransfer

SpecCircuits == InitCircuits /\ [][NextCircuits]_vars

\* the total quantity of an item: the sum of qty over the slots whose id is
\* the item
RECURSIVE TotalQuantity(_, _)
TotalQuantity(inventory, item_id) ==
    IF inventory = <<>> THEN 0
    ELSE (IF Head(inventory).item_id = item_id
          THEN Head(inventory).quantity ELSE 0)
         + TotalQuantity(Tail(inventory), item_id)

\* every item other than t (the empty id 0 is no item) has the same total
OtherItemsUnchanged(old, new, t) ==
    \A j \in (1..MaxItemId) \ {t} :
        TotalQuantity(old, j) = TotalQuantity(new, j)

\* C5: in every satisfying assignment of the Withdraw circuit, and of the
\* source half of the Transfer circuit, with public item_id t, every item
\* other than t has the same total quantity in the old and the new inventory
\* (stated for the t that name an item, t # 0).
C5_WithdrawKeepsOtherItems ==
    (satisfied = "yes" /\ circuitKind \in {"Withdraw", "Transfer"}
        /\ public.item_id # 0) =>
        OtherItemsUnchanged(witness.old, witness.new, public.item_id)

SlotForItemOnlyFromEmpty(old, new, t) ==
    \A i \in DOMAIN old :
        (new[i].item_id = t /\ old[i].item_id # t) => old[i].item_id = 0

\* C6: in every satisfying assignment of the Deposit circuit, and of the
\* destination half of the Transfer circuit, with public item_id t, every
\* item other than t has the same total quantity in the old and the new
\* inventory, and a slot that becomes t's was empty before (stated for the
\* t that name an item, t # 0).
C6_DepositKeepsOtherItems ==
    /\ (satisfied = "yes" /\ circuitKind = "Deposit" /\ public.item_id # 0) =>
          /\ OtherItemsUnchanged(witness.old, witness.new, public.item_id)
          /\ SlotForItemOnlyFromEmpty(witness.old, witness.new, public.item_id)
    /\ (satisfied = "yes" /\ circuitKind = "Transfer" /\ public.item_id # 0) =>
          /\ OtherItemsUnchanged(witness.dst_old, witness.dst_new, public.item_id)
          /\ SlotForItemOnlyFromEmpty(witness.dst_old, witness.dst_new,
                                      public.item_id)

NoDuplicateIds(inventory) ==
    \A i \in DOMAIN inventory : \A j \in DOMAIN inventory :
        i # j => ~(inventory[i].item_id # 0
                   /\ inventory[i].item_id = inventory[j].item_id)

\* C7: every inventory witness of a satisfying assignment of the
\* ItemExists, Withdraw, Deposit or Transfer circuit has no two slots with
\* the same non-zero id.
C7_SatisfyingWitnessHasNoDuplicateIds ==
    satisfied = "yes" =>
        /\ NoDuplicateIds(witness.old)
        /\ NoDuplicateIds(witness.new)
        /\ NoDuplicateIds(witness.dst_old)
        /\ NoDuplicateIds(witness.dst_new)

\* C11: a satisfied circuit (its commitments are those of its witnesses)
\* obeys its relation over the integers, q being the total quantity of the
\* public item: ItemExists q >= min_quantity; Withdraw q_old >= amount and
\* q_new = q_old - amount; Deposit q_new = q_old + amount.
C11_SatisfiedCircuitObeysRelation ==
    satisfied = "yes" =>
        LET q_old == TotalQuantity(witness.old, public.item_id)
            q_new == TotalQuantity(witness.new, public.item_id)
        IN  /\ circuitKind = "ItemExists" => q_old >= public.amount
            /\ circuitKind = "Withdraw" =>
                  (q_old >= public.amount /\ q_new = q_old - public.amount)
            /\ circuitKind = "Deposit" => q_new = q_old + public.amount

\* ItemExists satisfied with the held quantity exactly the minimum asked for
C11_Witness ==
    /\ circuitKind = "ItemExists"
    /\ satisfied = "yes"
    /\ public.amount > 0
    /\ TotalQuantity(witness.old, public.item_id) = public.amount

\* C12: a satisfied Transfer circuit has q_src_old >= amount,
\* q_src_new = q_src_old - amount and q_dst_new = q_dst_old + amount over the
\* integers, so the source's and the destination's quantity of the item sum
\* to the same before and after.
C12_TransferConservesItem ==
    (satisfied = "yes" /\ circuitKind = "Transfer") =>
        LET src_old == TotalQuantity(witness.old, public.item_id)
            src_new == TotalQuantity(witness.new, public.item_id)
            dst_old == TotalQuantity(witness.dst_old, public.item_id)
            dst_new == TotalQuantity(witness.dst_new, public.item_id)
        IN  /\ src_old >= public.amount
            /\ src_new = src_old - public.amount
            /\ dst_new = dst_old + public.amount
            /\ src_old + dst_old = src_new + dst_new

\* a satisfied transfer of a positive amount into a destination that already
\* held the item
C12_Witness ==
    /\ circuitKind = "Transfer"
    /\ satisfied = "yes"
    /\ public.amount > 0
    /\ TotalQuantity(witness.dst_old, public.item_id) > 0

-----------------------------------------------------------------------------
(* circuits/src/range_check.rs: enforce_range on a field element, the bit
   witnesses either as the code computes them or as a prover chooses them *)

\* bit widths run over 0..MaxRangeBits (RANGE_BITS is 32 in the code); 2^n
\* stays below the field's modulus
MaxRangeBits == 4

\* 2^n
Pow2(n) == 2 ^ n

\* the bits the code assigns: bigint.get_bit(i) for i in 0..num_bits
HonestBits(value, num_bits) ==
    [i \in 1..num_bits |-> (value \div Pow2(i - 1)) % 2]

\* the reconstruction with the coefficient started at 2 instead of 1
RECURSIVE ReconstructedFromTwo(_)
ReconstructedFromTwo(bits) ==
    IF bits = <<>> THEN 0
    ELSE CAdd(2 * bits[Len(bits)] * (Pow2(Len(bits) - 1) % CircuitModulus),
              ReconstructedFromTwo(SubSeq(bits, 1, Len(bits) - 1)))

\* reconstructed = sum of bit[i] * 2^i in the field, coeff doubling from 1
RECURSIVE Reconstructed(_)
Reconstructed(bits) ==
    IF bits = <<>> THEN 0
    ELSE CAdd(bits[Len(bits)] * (Pow2(Len(bits) - 1) % CircuitModulus),
              Reconstructed(SubSeq(bits, 1, Len(bits) - 1)))

\* the constraints of enforce_range: each bit is boolean (Boolean::new_witness)
\* and value = reconstructed
RangeSatisfied(value, bits) ==
    /\ \A i \in DOMAIN bits : bits[i] \in {0, 1}
    /\ value = Reconstructed(bits)

RangeWitness(value, num_bits, bits) ==
    [value |-> value, num_bits |-> num_bits, bits |-> bits]

CheckRange(value, num_bits, bits) ==
    /\ circuitKind' = "Range"
    /\ witness' = RangeWitness(value, num_bits, bits)
    /\ public' = public
    /\ satisfied' = IF RangeSatisfied(value, bits) THEN "yes" ELSE "no"
    /\ UNCHANGED <<inv, lastStatus>>
    /\ UNCHANGED optimizerVars

InitRange ==
    /\ OptimizerIdle
    /\ InventoryIdle

\* enforce_range as the code runs it: the bits are those of the value
SynthesizeRange ==
    /\ circuitKind = "none"
    /\ \E value \in 0..(CircuitModulus - 1), num_bits \in 0..MaxRangeBits :
          CheckRange(value, num_bits, HonestBits(value, num_bits))

\* the same constraints on bit witnesses of the prover's choice
ProveRange ==
    /\ circuitKind = "none"
    /\ \E value \in 0..(CircuitModulus - 1), num_bits \in 0..MaxRangeBits :
          \E bits \in [1..num_bits -> {0, 1}] :
              CheckRange(value, num_bits, bits)

NextRange ==
    \/ SynthesizeRange
    \/ ProveRange

SpecRange == InitRange /\ [][NextRange]_vars

\* C13: for a field element v and a width n with 2^n below the modulus, the
\* constraints of enforce_range(v, n) have a satisfying assignment of the n
\* bit witnesses exactly when v < 2^n; the assignment in the state satisfies
\* them only if v < 2^n.
C13_RangeCheckAcceptsExactlyBelowPow2 ==
    circuitKind = "Range" =>
        /\ (\E bits \in [1..witness.num_bits -> {0, 1}] :
                RangeSatisfied(witness.value, bits))
              <=> witness.value < Pow2(witness.num_bits)
        /\ satisfied = "yes" => witness.value < Pow2(witness.num_bits)
        /\ witness.bits = HonestBits(witness.value, witness.num_bits) =>
              (satisfied = "yes" <=> witness.value < Pow2(witness.num_bits))

\* the largest value of the largest width is accepted as the code runs it
C13_Witness ==
    /\ circuitKind = "Range"
    /\ witness.num_bits = MaxRangeBits
    /\ witness.value = Pow2(MaxRangeBits) - 1
    /\ satisfied = "yes"

-----------------------------------------------------------------------------
(* The order in which generate_constraints allocates its variables, and the
   public-input vectors of prover/src/verify.rs *)

\* one allocation: new_witness or new_input, of a named value
Allocated(mode, name) == [mode |-> mode, name |-> name, slot |-> 0]

\* the allocation of one field of one slot of an inventory
AllocatedSlot(name, slot) ==
    [mode |-> "witness", name |-> name, slot |-> slot]

\* InventoryVar::new_witness: item_id then quantity of every slot, in order
RECURSIVE InventoryVarNewWitness(_, _)
InventoryVarNewWitness(name, slots) ==
    IF slots = 0 THEN <<>>
    ELSE InventoryVarNewWitness(name, slots - 1)
            \o << AllocatedSlot(name, slots), AllocatedSlot(name, slots) >>

\* ItemExistsCircuit::generate_constraints, steps 1 and 2
ItemExistsAllocations ==
    InventoryVarNewWitness("inventory", MAX_ITEM_SLOTS)
        \o << Allocated("witness", "blinding"),
              Allocated("input", "commitment"),
              Allocated("input", "item_id"),
              Allocated("input", "min_quantity") >>

\* WithdrawCircuit::generate_constraints, steps 1 and 2
WithdrawAllocations ==
    InventoryVarNewWitness("old_inventory", MAX_ITEM_SLOTS)
        \o InventoryVarNewWitness("new_inventory", MAX_ITEM_SLOTS)
        \o << Allocated("witness", "old_blinding"),
              Allocated("witness", "new_blinding"),
              Allocated("input", "old_commitment"),
              Allocated("input", "new_commitment"),
              Allocated("input", "item_id"),
              Allocated("input", "amount") >>

\* DepositCircuit::generate_constraints, steps 1 and 2
DepositAllocations ==
    InventoryVarNewWitness("old_inventory", MAX_ITEM_SLOTS)
        \o InventoryVarNewWitness("new_inventory", MAX_ITEM_SLOTS)
        \o << Allocated("witness", "old_blinding"),
              Allocated("witness", "new_blinding"),
              Allocated("input", "old_commitment"),
              Allocated("input", "new_commitment"),
              Allocated("input", "item_id"),
              Allocated("input", "amount") >>

\* TransferCircuit::generate_constraints: source witnesses, destination
\* witnesses, then the public inputs
TransferAllocations ==
    InventoryVarNewWitness("src_old_inventory", MAX_ITEM_SLOTS)
        \o InventoryVarNewWitness("src_new_inventory", MAX_ITEM_SLOTS)
        \o << Allocated("witness", "src_old_blinding"),
              Allocated("witness", "src_new_blinding") >>
        \o InventoryVarNewWitness("dst_old_inventory", MAX_ITEM_SLOTS)
        \o InventoryVarNewWitness("dst_new_inventory", MAX_ITEM_SLOTS)
        \o << Allocated("witness", "dst_old_blinding"),
              Allocated("witness", "dst_new_blinding"),
              Allocated("input", "src_old_commitment"),
              Allocated("input", "src_new_commitment"),
              Allocated("input", "dst_old_commitment"),
              Allocated("input", "dst_new_commitment"),
              Allocated("input", "item_id"),
              Allocated("input", "amount") >>

Allocations(kind) ==
    CASE kind = "ItemExists" -> ItemExistsAllocations
      [] kind = "Withdraw"   -> WithdrawAllocations
      [] kind = "Deposit"    -> DepositAllocations
      [] kind = "Transfer"   -> TransferAllocations

\* the value the circuit assigns to a public input: the commitments are the
\* circuit's fields, item_id and the quantity go through F::from
InputValue(kind, name, pub) ==
    CASE name \in {"commitment", "old_commitment", "src_old_commitment"}
            -> pub.old_commitment
      [] name \in {"new_commitment", "src_new_commitment"}
            -> pub.new_commitment
      [] name = "dst_old_commitment" -> pub.dst_old_commitment
      [] name = "dst_new_commitment" -> pub.dst_new_commitment
      [] name = "item_id" -> pub.item_id % CircuitModulus
      [] name \in {"amount", "min_quantity"} -> pub.amount % CircuitModulus

IsInput(allocation) == allocation.mode = "input"

\* the instance assignment of the constraint system after the constant one:
\* the inputs in the order of their allocation
InstanceAssignment(kind, pub) ==
    [i \in DOMAIN SelectSeq(Allocations(kind), IsInput) |->
        [name  |-> SelectSeq(Allocations(kind), IsInput)[i].name,
         value |-> InputValue(kind,
                              SelectSeq(Allocations(kind), IsInput)[i].name,
                              pub)]]

VerifierInput(name, value) == [name |-> name, value |-> value]

\* verify_item_exists: vec![commitment, Fr::from(item_id), Fr::from(min_quantity)]
VerifyItemExistsInputs(commitment, item_id, min_quantity) ==
    << VerifierInput("commitment", commitment),
       VerifierInput("item_id", item_id % CircuitModulus),
       VerifierInput("min_quantity", min_quantity % CircuitModulus) >>

\* verify_withdraw
VerifyWithdrawInputs(old_commitment, new_commitment, item_id, amount) ==
    << VerifierInput("old_commitment", old_commitment),
       VerifierInput("new_commitment", new_commitment),
       VerifierInput("item_id", item_id % CircuitModulus),
       VerifierInput("amount", amount % CircuitModulus) >>

\* verify_deposit
VerifyDepositInputs(old_commitment, new_commitment, item_id, amount) ==
    << VerifierInput("old_commitment", old_commitment),
       VerifierInput("new_commitment", new_commitment),
       VerifierInput("item_id", item_id % CircuitModulus),
       VerifierInput("amount", amount % CircuitModulus) >>

\* verify_transfer with the second and third commitments exchanged
VerifyTransferInputsExchanged(src_old_commitment, src_new_commitment, dst_old_commitment, dst_new_commitment, item_id, amount) ==
    << VerifierInput("src_old_commitment", src_old_commitment),
       VerifierInput("dst_old_commitment", dst_old_commitment),
       VerifierInput("src_new_commitment", src_new_commitment),
       VerifierInput("dst_new_commitment", dst_new_commitment),
       VerifierInput("item_id", item_id % CircuitModulus),
       VerifierInput("amount", amount % CircuitModulus) >>

\* verify_transfer
VerifyTransferInputs(src_old_commitment, src_new_commitment, dst_old_commitment, dst_new_commitment, item_id, amount) ==
    << VerifierInput("src_old_commitment", src_old_commitment),
       VerifierInput("src_new_commitment", src_new_commitment),
       VerifierInput("dst_old_commitment", dst_old_commitment),
       VerifierInput("dst_new_commitment", dst_new_commitment),
       VerifierInput("item_id", item_id % CircuitModulus),
       VerifierInput("amount", amount % CircuitModulus) >>

\* the vector the verify_* helper of the circuit builds from the public values
VerifyInputs(kind, pub) ==
    CASE kind = "ItemExists" ->
            VerifyItemExistsInputs(pub.old_commitment, pub.item_id, pub.amount)
      [] kind = "Withdraw" ->
            VerifyWithdrawInputs(pub.old_commitment, pub.new_commitment,
                                 pub.item_id, pub.amount)
      [] kind = "Deposit" ->
            VerifyDepositInputs(pub.old_commitment, pub.new_commitment,
                                pub.item_id, pub.amount)
      [] kind = "Transfer" ->
            VerifyTransferInputs(pub.old_commitment, pub.new_commitment,
                                 pub.dst_old_commitment, pub.dst_new_commitment,
                                 pub.item_id, pub.amount)

\* the order of the public inputs the interface prescribes
NormativeOrder(kind) ==
    CASE kind = "ItemExists" -> <<"commitment", "item_id", "min_quantity">>
      [] kind \in {"Withdraw", "Deposit"} ->
            <<"old_commitment", "new_commitment", "item_id", "amount">>
      [] kind = "Transfer" ->
            <<"src_old_commitment", "src_new_commitment",
              "dst_old_commitment", "dst_new_commitment", "item_id", "amount">>

NamesOf(inputs) == [i \in DOMAIN inputs |-> inputs[i].name]

\* the names of the private witnesses: inventories' slots and blindings
IsPrivateName(name) ==
    name \in {"blinding", "old_blinding", "new_blinding",
              "src_old_blinding", "src_new_blinding",
              "dst_old_blinding", "dst_new_blinding",
              "inventory", "old_inventory", "new_inventory",
              "src_old_inventory", "src_new_inventory",
              "dst_old_inventory", "dst_new_inventory"}

\* C14: whenever a circuit has been built, its public inputs were allocated in
\* the normative order, every private witness was allocated as a witness and
\* never as an input, and the verify_* helper of the circuit builds the same
\* vector, names and values, in the same order.
C14_PublicInputsInNormativeOrder ==
    circuitKind \in {"ItemExists", "Withdraw", "Deposit", "Transfer"} =>
        /\ NamesOf(InstanceAssignment(circuitKind, public))
              = NormativeOrder(circuitKind)
        /\ \A i \in DOMAIN Allocations(circuitKind) :
              IsPrivateName(Allocations(circuitKind)[i].name)
                  <=> Allocations(circuitKind)[i].mode = "witness"
        /\ VerifyInputs(circuitKind, public)
              = InstanceAssignment(circuitKind, public)

\* a satisfied transfer whose four commitments are pairwise different, so that
\* every exchange of two of them is visible
C14_Witness ==
    /\ circuitKind = "Transfer"
    /\ satisfied = "yes"
    /\ Cardinality({public.old_commitment, public.new_commitment,
                    public.dst_old_commitment, public.dst_new_commitment}) = 4

-----------------------------------------------------------------------------
(* circuits/src/inventory.rs alone: every sequence of deposit and withdraw
   calls on Inventory::new(), the last call kept with the inventory it was
   made on *)

\* the ids of the calls: 0, and one distinct id more than there are slots
NativeItemIds == 0..(MAX_ITEM_SLOTS + 1)

\* a call of `op` with (item_id, amount) on the inventory `before`
NativeCall(op, before, item_id, amount) ==
    [op |-> op, before |-> before, item_id |-> item_id, amount |-> amount]

InitNative ==
    /\ OptimizerIdle
    /\ inv = InventoryNew
    /\ lastStatus = "none"
    /\ circuitKind = "none"
    /\ witness = NativeCall("none", InventoryNew, 0, 0)
    /\ public = PublicInputs(NoWitness, 0, 0)
    /\ satisfied = "unknown"

\* the call returns `res.status` and leaves `res.inv`
Called(op, res, item_id, amount) ==
    /\ inv' = res.inv
    /\ lastStatus' = res.status
    /\ witness' = NativeCall(op, inv, item_id, amount)
    /\ UNCHANGED <<circuitKind, public, satisfied>>
    /\ UNCHANGED optimizerVars

CallWithdraw ==
    \E item_id \in NativeItemIds, amount \in Quantities :
        Called("withdraw", InventoryWithdraw(inv, item_id, amount),
               item_id, amount)

CallDeposit ==
    \E item_id \in NativeItemIds, amount \in Quantities :
        \E res \in DepositOutcomes(inv, item_id, amount) :
            Called("deposit", res, item_id, amount)

NextNative ==
    \/ CallWithdraw
    \/ CallDeposit

SpecNative == InitNative /\ [][NextNative]_vars

\* C15: in every inventory reached from Inventory::new() by deposit and
\* withdraw calls, successful or failed, no two slots hold the same non-zero
\* item_id.
C15_NoTwoSlotsShareAnItemId ==
    \A i \in DOMAIN inv, j \in DOMAIN inv :
        (i # j /\ inv[i].item_id # 0) => inv[i].item_id # inv[j].item_id

\* every slot is taken, by different items, after successful deposits
C15_Witness ==
    /\ lastStatus = "ok"
    /\ witness.op = "deposit"
    /\ \A i \in DOMAIN inv : inv[i].item_id # 0 /\ inv[i].quantity > 0
    /\ \A i \in DOMAIN inv, j \in DOMAIN inv :
          i # j => inv[i].item_id # inv[j].item_id

\* C16: when a deposit of (id, n) on a reachable inventory has succeeded,
\* withdrawing (id, n) from the result succeeds and gives back the inventory
\* the deposit was made on, slot by slot.
C16_WithdrawUndoesDeposit ==
    (witness.op = "deposit" /\ lastStatus = "ok") =>
        InventoryWithdraw(inv, witness.item_id, witness.amount)
            = [status |-> "ok", inv |-> witness.before]

EmptySlots(inventory) ==
    Cardinality({i \in DOMAIN inventory : inventory[i].item_id = 0})

\* C18: a deposit(id, amount) fails with SlotCapacityExceeded exactly when
\* amount > 0, no slot holds id and no slot is empty, and then leaves every
\* slot unchanged; a new item deposited when one slot is left empty succeeds
\* and takes that slot; a deposit of amount 0 for an absent item succeeds and
\* changes nothing, also when no slot is empty.
C18_DepositFailsExactlyWhenNoSlot ==
    witness.op = "deposit" =>
        /\ lastStatus = "SlotCapacityExceeded"
              <=> /\ witness.amount > 0
                  /\ FindSlot(witness.before, witness.item_id) = NONE
                  /\ EmptySlots(witness.before) = 0
        /\ lastStatus = "SlotCapacityExceeded" => inv = witness.before
        /\ (/\ witness.amount > 0
            /\ FindSlot(witness.before, witness.item_id) = NONE
            /\ EmptySlots(witness.before) = 1) =>
              /\ lastStatus = "ok"
              /\ EmptySlots(inv) = 0
              /\ GetQuantity(inv, witness.item_id) = witness.amount
        /\ (/\ witness.amount = 0
            /\ FindSlot(witness.before, witness.item_id) = NONE) =>
              /\ lastStatus = "ok"
              /\ inv = witness.before

\* every slot holds a different item and the deposit of one more item failed
C18_Witness ==
    /\ witness.op = "deposit"
    /\ lastStatus = "SlotCapacityExceeded"
    /\ witness.item_id # 0
    /\ \A i \in DOMAIN inv : inv[i].item_id # 0 /\ inv[i].quantity > 0
    /\ Cardinality({inv[i].item_id : i \in DOMAIN inv}) = MAX_ITEM_SLOTS

\* the width the quantity is declared to fit in, scaled as the counter is:
\* half of QuantityBits, as 32 is half of the 64 bits of ItemSlot::quantity
DeclaredQuantityBits == 1

\* C19: every slot quantity of a reachable inventory fits within the declared
\* width, and no successful deposit is made with a sum of the held quantity
\* and the amount that does not fit the stored counter.
C19_QuantityFitsDeclaredWidth ==
    /\ \A i \in DOMAIN inv : inv[i].quantity < 2 ^ DeclaredQuantityBits
    /\ (witness.op = "deposit" /\ lastStatus = "ok") =>
          GetQuantity(witness.before, witness.item_id) + witness.amount
              < QuantityLimit

\* a constant constraint that no assignment satisfies: A, B and C are
\* constants and A * B differs from C
IsUnsatisfiableConstant(k) ==
    /\ ConstraintIsConstant(k)
    /\ LcIsConstant(k.c)
    /\ FMul(ComputeConstantValue(k.a), ComputeConstantValue(k.b))
          # ComputeConstantValue(k.c)

\* a constant constraint every assignment satisfies
IsSatisfiedConstant(k) ==
    /\ ConstraintIsConstant(k)
    /\ LcIsConstant(k.c)
    /\ FMul(ComputeConstantValue(k.a), ComputeConstantValue(k.b))
          = ComputeConstantValue(k.c)

\* the matrix has a row with the sides of k
HasRow(m, k) ==
    \E j \in DOMAIN m.constraints :
        /\ m.constraints[j].a = k.a
        /\ m.constraints[j].b = k.b
        /\ m.constraints[j].c = k.c

\* C20: after optimize() under any configuration, every unsatisfiable
\* constant constraint of the input is still a row of the result; the scan of
\* the constant-folding pass has a match for it with estimated_reduction 0;
\* when constant folding is enabled the pass_reports contain a report of the
\* constant-folding pass; and no satisfied constant constraint is left.
C20_UnsatisfiableConstantKeptAndReported ==
    firstRun # NotRun =>
        /\ \A i \in DOMAIN matrix.constraints :
              IsUnsatisfiableConstant(matrix.constraints[i]) =>
                  /\ HasRow(firstRun.matrix, matrix.constraints[i])
                  /\ \E n \in DOMAIN ConstFoldScan(matrix) :
                        /\ ConstFoldScan(matrix)[n].constraint_indices
                              = <<matrix.constraints[i].index>>
                        /\ ConstFoldScan(matrix)[n].estimated_reduction = 0
                  /\ optConfig.fold_constants =>
                        \E r \in DOMAIN firstRun.pass_reports :
                            firstRun.pass_reports[r].pass_name = "Constant Folding"
        /\ optConfig.fold_constants =>
              \A j \in DOMAIN firstRun.matrix.constraints :
                  ~IsSatisfiedConstant(firstRun.matrix.constraints[j])

-----------------------------------------------------------------------------
(* Further properties of the passes run one at a time *)

\* two constraints with the same A, B and C: the same coefficient for every
\* variable, zero-coefficient terms ignored
IdenticalConstraints(x, y) ==
    /\ SameLinearCombination(x.a, y.a)
    /\ SameLinearCombination(x.b, y.b)
    /\ SameLinearCombination(x.c, y.c)

\* the sides of the rows, without their indices
RowsOf(m) ==
    [i \in DOMAIN m.constraints |->
        <<m.constraints[i].a, m.constraints[i].b, m.constraints[i].c>>]

\* the rows of m that have no identical row before them
FirstOfEachClass(m) ==
    SelectSeq(m.constraints,
              LAMBDA k : \A j \in DOMAIN m.constraints :
                            m.constraints[j].index < k.index =>
                                ~IdenticalConstraints(m.constraints[j], k))

\* C21: after DeduplicationPass the matrix holds exactly the lowest-indexed
\* member of every class of identical constraints, in their original order,
\* and no two of its constraints have the same A, B and C.
C21_DeduplicationKeepsOnePerClass ==
    passName = "dedup" =>
        /\ RowsOf(matrix)
              = [i \in DOMAIN FirstOfEachClass(passInput) |->
                    <<FirstOfEachClass(passInput)[i].a,
                      FirstOfEachClass(passInput)[i].b,
                      FirstOfEachClass(passInput)[i].c>>]
        /\ \A i \in DOMAIN matrix.constraints, j \in DOMAIN matrix.constraints :
              i # j => ~IdenticalConstraints(matrix.constraints[i],
                                             matrix.constraints[j])

-----------------------------------------------------------------------------
(* constraint.rs: the index operations of ConstraintMatrix called with any
   list of indices, on matrices built with add_constraint *)

\* the longest list of indices passed to with_constraints/without_constraints
MaxIndexList == 2

\* the lists of indices, some of them beyond the matrix
IndexLists ==
    UNION {[1..n -> 0..MaxConstraints] : n \in 0..MaxIndexList}

\* an index operation on the matrix: the matrix it was called on and its
\* argument are kept
IndexOperation(name, indices, result) ==
    /\ passName = "none"
    /\ passName' = name
    /\ passInput' = matrix
    /\ passMatches' = indices
    /\ matrix' = result
    /\ UNCHANGED <<optConfig, firstRun, secondRun>>
    /\ UNCHANGED <<inv, lastStatus, circuitKind, witness, public, satisfied>>

CallWithConstraints ==
    \E indices \in IndexLists :
        IndexOperation("with_constraints", indices,
                       WithConstraints(matrix, indices))

CallWithoutConstraints ==
    \E indices \in IndexLists :
        IndexOperation("without_constraints", indices,
                       WithoutConstraints(matrix, indices))

NextIndex ==
    \/ AddConstraint
    \/ CallWithConstraints
    \/ CallWithoutConstraints

SpecIndex == InitPasses /\ [][NextIndex]_vars

\* constraint.index equals the position of the constraint
DenselyIndexed(m) ==
    \A i \in DOMAIN m.constraints : m.constraints[i].index = i - 1

\* C22: add_constraint, with_constraints and without_constraints, called on
\* a densely indexed matrix with any list of indices, give a densely indexed
\* matrix whose rows are rows of the matrix they were called on and whose
\* num_public_inputs, num_private_witnesses and num_variables are unchanged.
C22_IndexOperationsKeepIndicesDense ==
    /\ DenselyIndexed(matrix)
    /\ passName # "none" =>
          /\ DenselyIndexed(passInput)
          /\ SeqToSet(RowsOf(matrix)) \subseteq SeqToSet(RowsOf(passInput))
          /\ matrix.num_public_inputs = passInput.num_public_inputs
          /\ matrix.num_private_witnesses = passInput.num_private_witnesses
          /\ matrix.num_variables = passInput.num_variables

-----------------------------------------------------------------------------
(* The passes and optimize() on the same matrices: a matrix of pool rows is
   handed either to one pass or to the optimizer under any configuration *)

InitPipeline ==
    /\ matrix = EmptyMatrix(NumPublic, NumPrivate)
    /\ passName = "none"
    /\ passInput = EmptyMatrix(NumPublic, NumPrivate)
    /\ passMatches = <<>>
    /\ optConfig \in Configs
    /\ firstRun = NotRun
    /\ secondRun = NotRun
    /\ InventoryIdle

\* the result of optimize(): the OptimizationResult and its matrix
Optimized(result) ==
    /\ passName' = "optimize"
    /\ passInput' = matrix
    /\ passMatches' = <<>>
    /\ firstRun' = result
    /\ matrix' = result.matrix
    /\ UNCHANGED <<optConfig, secondRun>>
    /\ UNCHANGED <<inv, lastStatus, circuitKind, witness, public, satisfied>>

\* Optimizer::from_matrix(matrix).with_config(config).optimize()
RunOptimize ==
    /\ passName = "none"
    /\ Optimized(Optimize(matrix, optConfig))

\* the report of a scan that found something
Reported(name, matches) ==
    IF matches # <<>> THEN <<Report(name, matches)>> ELSE <<>>

\* Optimizer::analyze: the reports of the five scans of the matrix
Analyze(m) ==
    Reported("Deduplication", DedupScan(m))
        \o Reported("Constant Folding", ConstFoldScan(m))
        \o Reported("Linear Substitution", LinSubScan(m))
        \o Reported("Dead Variable", DeadVarScan(m))
        \o Reported("Common Subexpression", CseScan(m))

\* Optimizer::from_matrix(matrix).analyze(), which borrows the optimizer
RunAnalyze ==
    /\ passName = "none"
    /\ passName' = "analyze"
    /\ passInput' = matrix
    /\ passMatches' = Analyze(matrix)
    /\ UNCHANGED <<matrix, optConfig, firstRun, secondRun>>
    /\ UNCHANGED <<inv, lastStatus, circuitKind, witness, public, satisfied>>

NextPipeline ==
    \/ AddConstraint
    \/ RunDeduplication
    \/ RunConstantFolding
    \/ RunLinearSubstitution
    \/ RunDeadVariable
    \/ RunOptimize
    \/ RunAnalyze

SpecPipeline == InitPipeline /\ [][NextPipeline]_vars

\* the public inputs of a matrix extracted from a constraint system: the
\* instance variables after the constant
PublicInputVariables(m) == 1..(m.num_public_inputs - 1)

\* the rows whose C side is the single variable var
DefinitionsOf(m, var) ==
    {i \in DOMAIN m.constraints :
        /\ LcIsSingleVariable(m.constraints[i].c)
        /\ m.constraints[i].c[1].variable = var}

-----------------------------------------------------------------------------
(* The commitment computed natively and in the circuit *)

\* InventoryVar::new_witness: one (item_id, quantity) pair of field variables
\* for every slot, in slot order
InventoryVarSlots(inventory) ==
    [i \in DOMAIN inventory |->
        <<inventory[i].item_id % CircuitModulus,
          inventory[i].quantity % CircuitModulus>>]

\* the slot pairs flattened with the quantity before the id
RECURSIVE ToFieldVarsQuantityFirst(_)
ToFieldVarsQuantityFirst(slots) ==
    IF slots = <<>> THEN <<>>
    ELSE <<Head(slots)[2], Head(slots)[1]>>
         \o ToFieldVarsQuantityFirst(Tail(slots))

\* InventoryVar::to_field_vars: flat_map of (id, qty) over the slots
RECURSIVE ToFieldVars(_)
ToFieldVars(slots) ==
    IF slots = <<>> THEN <<>>
    ELSE <<Head(slots)[1], Head(slots)[2]>> \o ToFieldVars(Tail(slots))

\* what create_inventory_commitment hands to sponge.absorb
NativeAbsorbed(inventory, blinding) ==
    Append(ToFieldElements(inventory), blinding)

\* what commit_inventory hands to PoseidonGadget::hash for an allocated
\* inventory
CircuitAbsorbed(inventory, blinding) ==
    Append(ToFieldVars(InventoryVarSlots(inventory)), blinding)

CommitmentsAgree(inventory, blinding) ==
    LET absorbed == NativeAbsorbed(inventory, blinding)
    IN  /\ CircuitAbsorbed(inventory, blinding) = absorbed
        /\ Len(absorbed) = 2 * MAX_ITEM_SLOTS + 1
        /\ \A i \in 1..MAX_ITEM_SLOTS :
              /\ absorbed[2 * i - 1] = inventory[i].item_id
              /\ absorbed[2 * i] = inventory[i].quantity
        /\ absorbed[2 * MAX_ITEM_SLOTS + 1] = blinding
        /\ CommitInventory(ToFieldVars(InventoryVarSlots(inventory)), blinding)
              = CreateInventoryCommitment(inventory, blinding)

\* another inventory or another blinding is absorbed as another sequence
AbsorbedDistinguishes(inventory, blinding) ==
    \A other \in WitnessInventories, r \in Blindings :
        (other # inventory \/ r # blinding)
            => NativeAbsorbed(other, r) # NativeAbsorbed(inventory, blinding)

\* C24: for the inventories of a built circuit, the native commitment and the
\* in-circuit commitment absorb the same sequence id_0, qty_0, ..., blinding
\* in slot order and give the same output, and another inventory or blinding
\* gives another absorbed sequence (compared for the ItemExists circuits,
\* which are built with every blinding).
C24_CommitmentAgreement ==
    /\ circuitKind # "none" =>
          /\ CommitmentsAgree(witness.old, witness.old_blinding)
          /\ CommitmentsAgree(witness.new, witness.new_blinding)
    /\ circuitKind = "ItemExists" =>
          AbsorbedDistinguishes(witness.old, witness.old_blinding)

\* a circuit over an inventory whose two slots hold different items
C24_Witness ==
    /\ circuitKind # "none"
    /\ witness.old[1].item_id # witness.old[2].item_id
    /\ witness.old[1].quantity # witness.old[1].item_id
    /\ public.old_commitment
          = CommitInventory(ToFieldVars(InventoryVarSlots(witness.old)),
                            witness.old_blinding)

-----------------------------------------------------------------------------
(* The order of the matches a scan returns *)

NonIncreasingReduction(matches) ==
    \A i, j \in DOMAIN matches :
        i < j => matches[i].estimated_reduction >= matches[j].estimated_reduction

\* C25: the matches a pass found by scanning its input are in order of
\* non-increasing estimated_reduction (the scan takes the matrix by shared
\* reference, the input recorded before the pass is the matrix scanned).
C25_ScanMatchesOrdered ==
    passName \in {"dedup", "constfold", "linsub", "deadvar"} =>
        NonIncreasingReduction(passMatches)

-----------------------------------------------------------------------------
(* What LinearSubstitutionPass.scan reports *)

\* a constraint 1 * expr = v or expr * 1 = v with v a single variable
DefinesLinearly(k, var) ==
    /\ ConstraintIsLinear(k)
    /\ LcIsSingleVariable(k.c)
    /\ k.c[1].variable = var

LinearDefinitions(m, var) ==
    {i \in DOMAIN m.constraints : DefinesLinearly(m.constraints[i], var)}

\* C26: every constraint LinearSubstitutionPass.scan reports has the form
\* 1 * expr = v or expr * 1 = v with v a single non-public variable, expr of
\* at most 4 non-zero terms and v occurring in another constraint, and v is
\* the single-variable C side of no second such linear constraint.
C26_LinearSubstitutionReportsSingleDefinitions ==
    passName = "linsub" =>
        \A i \in DOMAIN passMatches :
            LET k == passInput.constraints[passMatches[i].constraint_indices[1] + 1]
                v == passMatches[i].substitute_variable
            IN  /\ DefinesLinearly(k, v)
                /\ v >= passInput.num_public_inputs
                /\ LcNumTerms(IF LcIsOne(k.a) THEN k.b ELSE k.a)
                      <= MAX_SUBSTITUTION_TERMS
                /\ CountVariableUsage(passInput, v, k.index) > 0
                /\ Cardinality(LinearDefinitions(passInput, v)) = 1

-----------------------------------------------------------------------------
(* The sweeps of optimize(), pass by pass *)

PassOrder == <<"dedup", "constfold", "linsub", "deadvar">>

PassEnabled(cfg, name) ==
    CASE name = "dedup" -> cfg.deduplicate
      [] name = "constfold" -> cfg.fold_constants
      [] name = "linsub" -> cfg.substitute_linear
      [] name = "deadvar" -> cfg.eliminate_dead

PassOptimize(name, m) ==
    CASE name = "dedup" -> DedupOptimize(m)
      [] name = "constfold" -> ConstFoldOptimize(m)
      [] name = "linsub" -> LinSubOptimize(m)
      [] name = "deadvar" -> DeadVarOptimize(m)

\* the pass at position `from` of the order, a disabled pass handing its
\* matrix on
PassStep(m, cfg, from) ==
    IF PassEnabled(cfg, PassOrder[from])
    THEN PassOptimize(PassOrder[from], m) ELSE m

\* sweep number n, begun on `start`, has reached `m` before the pass at
\* position `from`: no pass raises the constraint count; a sweep before the
\* last lowers the count and the next sweep begins on its matrix; the last
\* sweep ends on the returned matrix, without lowering the count when the
\* loop left on no progress, and as sweep max_iterations otherwise
RECURSIVE SweepsOrderly(_, _, _, _, _, _)
RECURSIVE EndOfSweep(_, _, _, _, _)
SweepsOrderly(m, cfg, from, start, n, result) ==
    IF from > Len(PassOrder) THEN EndOfSweep(start, m, n, cfg, result)
    ELSE \A next \in {PassStep(m, cfg, from)} :
            /\ NumConstraints(next) <= NumConstraints(m)
            /\ SweepsOrderly(next, cfg, from + 1, start, n, result)

EndOfSweep(start, swept, n, cfg, result) ==
    IF n = result.sweeps
    THEN /\ swept = result.matrix
         /\ result.stopped = "no_progress" =>
                NumConstraints(swept) >= NumConstraints(start)
         /\ result.stopped = "exhausted" =>
                /\ n = cfg.max_iterations
                /\ NumConstraints(swept) < NumConstraints(start)
    ELSE /\ NumConstraints(swept) < NumConstraints(start)
         /\ SweepsOrderly(swept, cfg, 1, swept, n + 1, result)

\* C27: optimize() returns after at most max_iterations sweeps; each sweep
\* runs the enabled passes in the order dedup, constant folding, linear
\* substitution, dead variable, each on the matrix of the pass before; the
\* loop ends with the first sweep that did not lower the constraint count;
\* the count never rises from one pass to the next; final_constraints is the
\* size of the returned matrix and at most original_constraints.
C27_OptimizeSweepsTerminateInOrder ==
    firstRun # NotRun =>
        /\ firstRun.stopped \in {"no_progress", "exhausted"}
        /\ firstRun.sweeps >= 1
        /\ firstRun.sweeps <= optConfig.max_iterations
        /\ SweepsOrderly(matrix, optConfig, 1, matrix, 1, firstRun)
        /\ firstRun.original_constraints = NumConstraints(matrix)
        /\ firstRun.final_constraints = NumConstraints(firstRun.matrix)
        /\ firstRun.final_constraints <= firstRun.original_constraints

\* a run of several sweeps that ended on a sweep removing nothing
C27_Witness ==
    /\ firstRun # NotRun
    /\ firstRun.sweeps >= 3
    /\ firstRun.stopped = "no_progress"
    /\ firstRun.final_constraints < firstRun.original_constraints

-----------------------------------------------------------------------------
(* What optimize() and analyze() may change *)

NoDuplicateConstraint(m) ==
    \A i, j \in DOMAIN m.constraints :
        i # j => ~IdenticalConstraints(m.constraints[i], m.constraints[j])

NoConstantConstraint(m) ==
    \A i \in DOMAIN m.constraints : ~ConstraintIsConstant(m.constraints[i])

\* the matrix optimize() returns when only deduplication and constant folding
\* are applied, sweep after sweep
RECURSIVE SafeSweeps(_, _)
SafeSweeps(m, sweeps) ==
    IF sweeps = 0 THEN m
    ELSE SafeSweeps(ConstFoldOptimize(DedupOptimize(m)), sweeps - 1)

\* C28: optimize() changes the matrix only through the reducing passes its
\* configuration enables: under safe() the result is that of at most 3 sweeps
\* of deduplication and constant folding and a matrix without duplicate and
\* without constant constraint comes back unchanged; under analyze_only() the
\* result is the input; analyze() leaves the matrix as it was.
C28_OnlyEnabledPassesChangeTheMatrix ==
    /\ (passName = "optimize" /\ optConfig = ConfigSafe) =>
          /\ firstRun.sweeps <= 3
          /\ firstRun.matrix = SafeSweeps(passInput, firstRun.sweeps)
          /\ (NoDuplicateConstraint(passInput) /\ NoConstantConstraint(passInput))
                => firstRun.matrix = passInput
    /\ (passName = "optimize" /\ optConfig = ConfigAnalyzeOnly) =>
          firstRun.matrix = passInput
    /\ passName = "optimize" => matrix = firstRun.matrix
    /\ passName = "analyze" => matrix = passInput

-----------------------------------------------------------------------------
(* The savings a pass reports and the constraints it removes *)

ConstraintsRemoved == NumConstraints(passInput) - NumConstraints(matrix)

\* C29: the estimated_savings of the report a reducing pass returns with its
\* reduced matrix equals the number of constraints the pass removed.
C29_ReportedSavingsAreActualSavings ==
    passName \in {"dedup", "constfold", "linsub", "deadvar"} =>
        Report(passName, passMatches).estimated_savings = ConstraintsRemoved

-----------------------------------------------------------------------------
(* What CommonSubexpressionPass.scan reports *)

\* the occurrences of the hash h on A and B sides
OccurrencesOnAB(m, h) == {occ \in CseOccurrences(m, h) : occ[2] # "C"}

\* the structural hashes met MIN_OCCURRENCES times on A and B sides
RepeatedOnAB(m) ==
    {h \in 0..(HashSpace - 1) :
        Cardinality(OccurrencesOnAB(m, h)) >= MIN_OCCURRENCES}

\* C30: the scan of CommonSubexpressionPass reports a pattern exactly for the
\* structural hashes of linear combinations of 2 or more non-zero terms that
\* occur 3 or more times on A and B sides; occurrences on C sides neither
\* count nor are reported.
C30_CommonSubexpressionCountsABSidesOnly ==
    passName = "analyze" =>
        LET cse == SelectSeq(passMatches,
                     LAMBDA r : r.pass_name = "Common Subexpression")
        IN  IF RepeatedOnAB(passInput) = {} THEN cse = <<>>
            ELSE /\ Len(cse) = 1
                 /\ cse[1].patterns_found = Cardinality(RepeatedOnAB(passInput))
                 /\ \A i \in DOMAIN CseScan(passInput) :
                       \E h \in RepeatedOnAB(passInput) :
                           Len(CseScan(passInput)[i].constraint_indices)
                               = Cardinality(OccurrencesOnAB(passInput, h))

====
